---- MODULE Spec2Model ----
(***************************************************************************)
(* A model of ign-gui's MessageWidget (src/src/MessageWidget.cc), of       *)
(* Dock::closeEvent (src/src/Dock.cc) and of the TimePanel plugin as its   *)
(* test (src/src/plugins/TimePanel_TEST.cc) drives it.                     *)
(*                                                                         *)
(* A protobuf message is a partial function from scoped field names        *)
(* ("a::b") to values; a name in the domain is a field whose has-bit is    *)
(* set.  Every value is a sequence of integers: <<n>> for a floating point *)
(* number (in units of 1e-9), a boolean (0/1) or an enum number, the       *)
(* character codes for a string, the elements for a repeated field and     *)
(* <<>> for a present sub-message.  The value of an integer field is       *)
(* <<low, high>>, the two 32 bit words of its 64 bit two's complement      *)
(* representation, each read as a signed int, so that the conversions of   *)
(* the C++ code between int64_t, uint64_t, unsigned int and int are exact. *)
(***************************************************************************)
EXTENDS Integers, Sequences, FiniteSets, TLC

VARIABLES
  root,           \* message type the widget is used with (fixed per run)
  msg,            \* MessageWidgetPrivate::msg, NoMsg while nullptr
  configWidgets,  \* MessageWidgetPrivate::configWidgets: scoped name -> widget
  forceDisabled,  \* scoped names whose Qt widget was explicitly disabled
  status,         \* "running", or "crashed" once the process died
  lastOp,         \* the last public call and what it returned
  loadedMsg,      \* the message last given to Load / UpdateFromMsg
  synced,         \* the call, Load or UpdateFromMsg, since which no widget
                  \* was edited; "" once one was
  calls,          \* the number of public calls made so far
  \* Dock
  dockChildren,   \* the Plugin objects below the Dock, in findChild order
  dockOp,         \* the last thing that happened to the Dock
  closeEvents,    \* close events the Dock has received
  baseCloses,     \* calls of QDockWidget::closeEvent
  closingEmitted, \* emissions of the Closing signal
  closings,       \* per plugin, the emissions of Closing made for it
  attached,       \* per plugin, the times it was put into the Dock
  closeLog,       \* what the last close event did, in order
  \* TimePanel
  tpConfig,       \* the <world_control> and <world_stats> configuration
  playVisible,    \* playButton->isVisible()
  pauseVisible,   \* pauseButton->isVisible()
  stepEnabled,    \* stepButton->isEnabled()
  tpInbox,        \* WorldStatistics messages published and not yet processed
  tpRequest,      \* the last WorldControl request sent to the service
  tpEvents,       \* clicks and messages handled so far
  tpOp,           \* the last click or message, and the service's answer
  tpRequests,     \* WorldControl requests sent to the service so far
  tpLabels,       \* the texts of simTimeLabel, realTimeLabel and
                  \* realTimeFactorLabel
  tpPlugin,       \* what loadPlugin returned, the plugins of the window, and
                  \* the title and the QWidget children of the plugin
  \* GuiEvents
  postedEvents,   \* the events posted and not yet delivered, oldest first
  delivered,      \* the event delivered last, and the event classes whose
                  \* kType its type() equals
  deliveries      \* the events delivered so far

mwVars == <<root, msg, configWidgets, forceDisabled, status, lastOp,
            loadedMsg, synced, calls>>

dockVars == <<dockChildren, dockOp, closeEvents, baseCloses, closingEmitted,
              closings, attached, closeLog>>

tpVars == <<tpConfig, playVisible, pauseVisible, stepEnabled, tpInbox,
            tpRequest, tpEvents, tpOp, tpRequests, tpLabels, tpPlugin>>

evVars == <<postedEvents, delivered, deliveries>>

vars == <<mwVars, dockVars, tpVars, evVars>>

-----------------------------------------------------------------------------
(* Bounds *)

\* Parse frames the call stack can hold before the process dies.
MaxStack == 4

\* Public calls made on one MessageWidget.
MaxCalls == 4

\* Items a combo box is given room for.
MaxItems == 3

\* Close events one Dock receives, and times one plugin is put into it.
MaxCloses == 3
MaxAttach == 2

\* WorldStatistics messages in flight, and events one TimePanel handles.
MaxInFlight == 2

\* events posted and not yet delivered, and events delivered
MaxPosted == 3
MaxDeliveries == 3
MaxEvents == 4

-----------------------------------------------------------------------------
(* Integer conversions of the C++ build (two's complement, 32 bit int) *)

\* conversion of an int64_t, uint64_t, int32_t or uint32_t to int or to
\* unsigned int: the low word
LowWord(v) == v[1]

\* conversion of an int to int64_t or to uint64_t
SignExtend(n) == << n, IF n < 0 THEN -1 ELSE 0 >>

\* conversion of an int to uint32_t
ZeroExtend(n) == << n, 0 >>

\* QSpinBox::setValue keeps the value inside the range given to setRange
qBound(lo, v, hi) == IF v < lo THEN lo ELSE IF v > hi THEN hi ELSE v

SpinBoxMax == 100000000

\* QDoubleSpinBox::setValue rounds to the decimals given to setDecimals;
\* step is that resolution in units of 1e-9 (1e-8 is 10)
RoundToDecimals(v, step) ==
  IF v >= 0 THEN ((v + step \div 2) \div step) * step
  ELSE -((((-v) + step \div 2) \div step) * step)

\* setDecimals(8) of the widget of a double or float field
DoubleStep == 10

\* const char* of a std::string: the characters before the first NUL
RECURSIVE c_str(_)
c_str(s) ==
  IF s = <<>> \/ Head(s) = 0 THEN <<>> ELSE <<Head(s)>> \o c_str(Tail(s))

-----------------------------------------------------------------------------
(* The message schema: descriptors of the message types *)

Field(n, t) ==
  [name |-> n, type |-> t, is_repeated |-> FALSE, message_type |-> "",
   enum_type |-> ""]
MessageField(n, mt) ==
  [name |-> n, type |-> "TYPE_MESSAGE", is_repeated |-> FALSE,
   message_type |-> mt, enum_type |-> ""]
EnumField(n, et) ==
  [name |-> n, type |-> "TYPE_ENUM", is_repeated |-> FALSE,
   message_type |-> "", enum_type |-> et]
Repeated(f) == [f EXCEPT !.is_repeated = TRUE]

\* google::protobuf::Descriptor::field(i), i from 1
Descriptor(t) ==
  CASE t = "Ints" ->
         << Field("i32", "TYPE_INT32"), Field("i64", "TYPE_INT64") >>
    [] t = "UInts" ->
         << Field("u32", "TYPE_UINT32"), Field("u64", "TYPE_UINT64") >>
    [] t = "Text" ->
         << Field("s", "TYPE_STRING"), EnumField("e", "Kind"),
            Field("innerxml", "TYPE_STRING") >>
    [] t = "Outer" ->
         << MessageField("child", "Inner"),
            MessageField("blank", "Blank"),
            Repeated(MessageField("items", "Inner")),
            Field("raw", "TYPE_BYTES"),
            Field("flag", "TYPE_BOOL") >>
    [] t = "Inner" ->
         << Field("x", "TYPE_INT32"),
            Repeated(Field("r", "TYPE_INT32")),
            Field("z", "TYPE_SINT32") >>
    [] t = "Blank" ->
         << Repeated(Field("r", "TYPE_STRING")) >>
    [] t = "Node" ->
         << Field("v", "TYPE_INT32"), MessageField("next", "Node") >>
    [] t = "Ping" ->
         << MessageField("pong", "Pong") >>
    [] t = "Pong" ->
         << MessageField("ping", "Ping") >>
    [] t = "Visual" ->
         << MessageField("pose", "Pose"), MessageField("scale", "Vector3d"),
            MessageField("ambient", "Color") >>
    [] t = "Collision" ->
         << MessageField("geometry", "Geometry"),
            MessageField("density", "Density"),
            Field("mass", "TYPE_DOUBLE"), Field("bounce", "TYPE_FLOAT") >>
    \* the message types the widget has special widgets for
    [] t = "Vector3d" ->
         << Field("x", "TYPE_DOUBLE"), Field("y", "TYPE_DOUBLE"),
            Field("z", "TYPE_DOUBLE") >>
    [] t = "Quaternion" ->
         << Field("x", "TYPE_DOUBLE"), Field("y", "TYPE_DOUBLE"),
            Field("z", "TYPE_DOUBLE"), Field("w", "TYPE_DOUBLE") >>
    [] t = "Pose" ->
         << MessageField("position", "Vector3d"),
            MessageField("orientation", "Quaternion") >>
    [] t = "Color" ->
         << Field("r", "TYPE_FLOAT"), Field("g", "TYPE_FLOAT"),
            Field("b", "TYPE_FLOAT"), Field("a", "TYPE_FLOAT") >>
    [] t = "Density" ->
         << Field("density", "TYPE_DOUBLE") >>
    [] t = "Geometry" ->
         << EnumField("type", "Geometry.Type"),
            MessageField("box", "BoxGeom"),
            MessageField("cylinder", "CylinderGeom"),
            MessageField("plane", "PlaneGeom"),
            MessageField("sphere", "SphereGeom"),
            MessageField("mesh", "MeshGeom"),
            Repeated(MessageField("polyline", "Polyline")) >>
    [] t = "BoxGeom" ->
         << MessageField("size", "Vector3d") >>
    [] t = "CylinderGeom" ->
         << Field("radius", "TYPE_DOUBLE"), Field("length", "TYPE_DOUBLE") >>
    [] t = "SphereGeom" ->
         << Field("radius", "TYPE_DOUBLE") >>
    [] t = "PlaneGeom" ->
         << MessageField("normal", "Vector3d") >>
    [] t = "MeshGeom" ->
         << Field("filename", "TYPE_STRING"),
            MessageField("scale", "Vector3d") >>
    [] OTHER -> << >>

\* google::protobuf::EnumDescriptor: the value names, numbered from 0
EnumDescriptor(e) ==
  CASE e = "Kind" -> << "RED", "GREEN" >>
    [] e = "Geometry.Type" ->
         << "BOX", "CYLINDER", "SPHERE", "PLANE", "MESH", "POLYLINE" >>
    [] OTHER -> << >>

\* The message types a widget is loaded with.
Roots ==
  {"Ints", "UInts", "Text", "Outer", "Node", "Ping", "Visual", "Collision"}

IntTypes == {"TYPE_INT32", "TYPE_INT64", "TYPE_UINT32", "TYPE_UINT64"}

-----------------------------------------------------------------------------
(* Messages and reflection *)

NoMsg == [p \in {"<nullptr>"} |-> << >>]
EmptyMsg == [p \in {} |-> << >>]

\* std::string scopedName = _name.empty() ? name : _name + "::" + name;
ScopedName(_name, name) == IF _name = "" THEN name ELSE _name \o "::" \o name

\* Reflection::HasField
HasField(m, p) == p \in DOMAIN m

\* The default value of an unset field
DefaultValue(field) ==
  IF field.type = "TYPE_STRING" \/ field.type = "TYPE_BYTES" THEN << >>
  ELSE IF field.type \in IntTypes THEN << 0, 0 >>
  ELSE << 0 >>

\* Reflection::Get*: the value, or the default when the field is not set
GetField(m, p, field) == IF p \in DOMAIN m THEN m[p] ELSE DefaultValue(field)

\* Reflection::Set*
SetField(m, p, v) == (p :> v) @@ m

\* Reflection::MutableMessage: the sub-message, created when it is not set
MutableMessage(m, p) == IF p \in DOMAIN m THEN m ELSE (p :> << >>) @@ m

\* EnumDescriptor::FindValueByName: the number, -1 when there is none
FindValueByName(e, n) ==
  IF \E k \in 1..Len(EnumDescriptor(e)) : EnumDescriptor(e)[k] = n
  THEN (CHOOSE k \in 1..Len(EnumDescriptor(e)) : EnumDescriptor(e)[k] = n) - 1
  ELSE -1

\* EnumValueDescriptor::name of the value with number k
EnumValueName(e, k) == EnumDescriptor(e)[k + 1]

-----------------------------------------------------------------------------
(* Property widgets *)

\* A PropertyWidget.  value[k] is the value of the numeric sub-widget
\* widgets[k-1] (spin box value, combo box index), text the content of its
\* line edit, items the texts of its combo box, lo/hi/step what setRange and
\* setDecimals gave its spin boxes, parent the scoped name of the widget
\* whose group box holds it ("" for the top level), group whether
\* CreateGroupWidget wrapped it in a GroupWidget.
PropertyWidget(kind) ==
  [kind |-> kind, value |-> << >>, text |-> << >>, items |-> << >>,
   lo |-> 0, hi |-> 0, step |-> 1, parent |-> "", group |-> FALSE,
   scopedName |-> "", id |-> 0]

\* a null PropertyWidget pointer
nullptr == PropertyWidget("nullptr")

\* PropertyWidget::widgets.size() for each kind of widget
WidgetsSize(w) ==
  CASE w.kind \in {"int", "uint", "double", "string", "plain", "enum",
                   "bool", "message"} -> 1
    [] w.kind \in {"vector3d", "color"} -> 4
    [] w.kind = "pose" -> 6
    [] w.kind = "geometry" -> 8
    [] w.kind = "density" -> 2
    [] OTHER -> 0

\* the class qobject_cast finds in widgets[0]
Widget0Class(w) ==
  CASE w.kind \in {"int", "uint"} -> "QSpinBox"
    [] w.kind \in {"double", "vector3d", "color", "pose"} -> "QDoubleSpinBox"
    [] w.kind = "string" -> "QLineEdit"
    [] w.kind = "plain" -> "QPlainTextEdit"
    [] w.kind \in {"enum", "geometry", "density"} -> "QComboBox"
    [] w.kind = "bool" -> "QRadioButton"
    [] OTHER -> "QGroupBox"

CreateUIntWidget ==
  [PropertyWidget("uint") EXCEPT !.value = << 0 >>, !.lo = 0,
                                 !.hi = SpinBoxMax]

\* the range of the unsigned widget
CreateIntWidgetUnsigned ==
  [PropertyWidget("int") EXCEPT !.value = << 0 >>, !.lo = 0,
                                !.hi = SpinBoxMax]

CreateIntWidget ==
  [PropertyWidget("int") EXCEPT !.value = << 0 >>, !.lo = -SpinBoxMax,
                                !.hi = SpinBoxMax]

\* _type is "plain" for the field innerxml and "line" otherwise
CreateStringWidget(_type) ==
  PropertyWidget(IF _type = "plain" THEN "plain" ELSE "string")

\* a combo box shows its first item once it has one
CreateEnumWidget(_values) ==
  [PropertyWidget("enum") EXCEPT
     !.items = _values,
     !.value = << IF _values = << >> THEN -1 ELSE 0 >>]

\* QComboBox::findText: the index of the first item with that text, or -1
findText(items, t) ==
  IF \E k \in 1..Len(items) : items[k] = t
  THEN (CHOOSE k \in 1..Len(items) :
          items[k] = t /\ \A j \in 1..(k - 1) : items[j] # t) - 1
  ELSE -1

\* QComboBox::currentText
currentText(w) ==
  IF w.value[1] >= 0 /\ w.value[1] < Len(w.items)
  THEN w.items[w.value[1] + 1] ELSE ""

\* the value taken for an unsigned one
UpdateIntWidgetUnsigned(w, _value) ==
  [w EXCEPT !.value = << qBound(0, _value, w.hi) >>]

\* UpdateIntWidget(PropertyWidget *, int _value)
UpdateIntWidget(w, _value) ==
  [w EXCEPT !.value = << qBound(w.lo, _value, w.hi) >>]

\* UpdateUIntWidget(PropertyWidget *, unsigned int _value): _value is the
\* word of the unsigned int, which QSpinBox::setValue(int) reads as an int
UpdateUIntWidget(w, _value) ==
  [w EXCEPT !.value = << qBound(w.lo, _value, w.hi) >>]

\* UpdateStringWidget: setText(tr(_value.c_str()))
UpdateStringWidget(w, _value) == [w EXCEPT !.text = c_str(_value)]

\* UpdateEnumWidget: FALSE and no change when the text is not an item
UpdateEnumWidgetOk(w, _value) == findText(w.items, _value) >= 0
\* the index is not set
UpdateEnumWidgetKeep(w, _value) == w

UpdateEnumWidget(w, _value) ==
  IF UpdateEnumWidgetOk(w, _value)
  THEN [w EXCEPT !.value = << findText(w.items, _value) >>]
  ELSE w

\* AddPropertyWidget: TRUE when the child was registered
AddPropertyWidgetOk(widgets, _name, _child) ==
  /\ ~(_name = "" \/ _child = nullptr)
  /\ _name \notin DOMAIN widgets

\* a registered name is given the new child
AddPropertyWidgetOverwrite(widgets, _name, _child) ==
  IF ~(_name = "" \/ _child = nullptr)
  THEN [n \in DOMAIN widgets \cup {_name} |->
          IF n = _name
          THEN [_child EXCEPT !.scopedName = _name,
                              !.id = Cardinality(DOMAIN widgets) + 1]
          ELSE widgets[n]]
  ELSE widgets

AddPropertyWidget(widgets, _name, _child) ==
  IF AddPropertyWidgetOk(widgets, _name, _child)
  THEN (_name :> [_child EXCEPT !.scopedName = _name,
                                !.id = Cardinality(DOMAIN widgets) + 1])
       @@ widgets
  ELSE widgets

\* PropertyWidgetCount
PropertyWidgetCount == Cardinality(DOMAIN configWidgets)

-----------------------------------------------------------------------------
(* The widgets of the special message types *)

\* 1.0 and 0.5 in units of 1e-9
One == 1000000000
Half == 500000000

\* setDecimals(6), setDecimals(3) and setDecimals(1) in units of 1e-9
Step6 == 1000
Step3 == 1000000
Step1 == 100000000

\* the range rangeFromKey gives a spin box; no value of the model leaves it
DoubleMax == 2000000000

\* QDoubleSpinBox::setValue: rounded to the decimals, kept in the range
SpinValue(w, v) == qBound(w.lo, RoundToDecimals(v, w.step), w.hi)

\* math::Vector3d::operator==, which compares with a tolerance of 1e-3
VectorEqual(a, b) ==
  \A k \in 1..3 : a[k] - b[k] <= Step3 /\ b[k] - a[k] <= Step3

CreateVector3dWidget ==
  [PropertyWidget("vector3d") EXCEPT !.value = << 0, 0, 0, 0 >>,
     !.lo = -DoubleMax, !.hi = DoubleMax, !.step = Step6]

\* UpdateVector3dWidget: the three spin boxes and the preset combo box
UpdateVector3dWidget(w, _vec) ==
  LET preset ==
        CASE VectorEqual(_vec, << One, 0, 0 >>) -> 1
          [] VectorEqual(_vec, << -One, 0, 0 >>) -> 2
          [] VectorEqual(_vec, << 0, One, 0 >>) -> 3
          [] VectorEqual(_vec, << 0, -One, 0 >>) -> 4
          [] VectorEqual(_vec, << 0, 0, One >>) -> 5
          [] VectorEqual(_vec, << 0, 0, -One >>) -> 6
          [] OTHER -> 0
  IN [w EXCEPT !.value = << SpinValue(w, _vec[1]), SpinValue(w, _vec[2]),
                            SpinValue(w, _vec[3]), preset >>]

CreateColorWidget ==
  [PropertyWidget("color") EXCEPT !.value = << 0, 0, 0, 0 >>,
     !.lo = 0, !.hi = One, !.step = Step3]

UpdateColorWidget(w, _color) ==
  [w EXCEPT !.value = [k \in 1..4 |-> SpinValue(w, _color[k])]]

CreatePoseWidget ==
  [PropertyWidget("pose") EXCEPT !.value = << 0, 0, 0, 0, 0, 0 >>,
     !.lo = -DoubleMax, !.hi = DoubleMax, !.step = Step6]

\* math::Quaterniond::Euler() of the quaternion << x, y, z, w >>.  The
\* rotations of the model are the identity and the all-zero quaternion of an
\* unset message, which is normalised to the identity.
Euler(q) == << 0, 0, 0 >>

\* math::Quaterniond(roll, pitch, yaw) as << x, y, z, w >>, for no rotation
QuaternionFromEuler(rot) == << 0, 0, 0, One >>

\* UpdatePoseWidget: _pose is << position, quaternion >>
UpdatePoseWidget(w, _pose) ==
  [w EXCEPT !.value =
     [k \in 1..6 |->
        IF k <= 3 THEN SpinValue(w, _pose[1][k])
        ELSE SpinValue(w, Euler(_pose[2])[k - 3])]]

\* value is << spin box, DensityWidget::density >>
CreateDensityWidget ==
  [PropertyWidget("density") EXCEPT !.value = << One, 0 >>,
     !.lo = -DoubleMax, !.hi = DoubleMax, !.step = Step1]

\* UpdateDensityWidget, DensityWidget::SetDensity
UpdateDensityWidget(w, _value) ==
  [w EXCEPT !.value = << SpinValue(w, _value), _value >>]

\* value is << type combo box, size x, size y, size z, radius, length >>,
\* text the mesh file name
CreateGeometryWidget ==
  [PropertyWidget("geometry") EXCEPT
     !.items = << "box", "cylinder", "sphere", "mesh", "polyline" >>,
     !.value = << 0, One, One, One, Half, One >>,
     !.lo = -DoubleMax, !.hi = DoubleMax, !.step = Step6]

\* UpdateGeometryWidget: FALSE and no change when the type is not an item
UpdateGeometryWidgetOk(w, _value) == findText(w.items, _value) >= 0
UpdateGeometryWidget(w, _value, _dimensions, _uri) ==
  IF ~UpdateGeometryWidgetOk(w, _value) THEN w
  ELSE
    LET v == w.value
        idx == findText(w.items, _value)
        dims ==
          CASE _value \in {"box", "mesh"} ->
                 << idx, SpinValue(w, _dimensions[1]),
                    SpinValue(w, _dimensions[2]),
                    SpinValue(w, _dimensions[3]), v[5], v[6] >>
            [] _value = "cylinder" ->
                 << idx, v[2], v[3], v[4],
                    SpinValue(w, _dimensions[1] \div 2),
                    SpinValue(w, _dimensions[3]) >>
            [] _value = "sphere" ->
                 << idx, v[2], v[3], v[4],
                    SpinValue(w, _dimensions[1] \div 2), v[6] >>
            [] OTHER -> << idx, v[2], v[3], v[4], v[5], v[6] >>
    IN [w EXCEPT !.value = dims,
                 !.text = IF _value = "mesh" THEN c_str(_uri) ELSE w.text]

\* QString::toLower and QString::toUpper of the geometry type names
toLower(n) ==
  CASE n = "BOX" -> "box" [] n = "CYLINDER" -> "cylinder"
    [] n = "SPHERE" -> "sphere" [] n = "PLANE" -> "plane"
    [] n = "MESH" -> "mesh" [] n = "POLYLINE" -> "polyline"
    [] OTHER -> n
toUpper(n) ==
  CASE n = "box" -> "BOX" [] n = "cylinder" -> "CYLINDER"
    [] n = "sphere" -> "SPHERE" [] n = "plane" -> "PLANE"
    [] n = "mesh" -> "MESH" [] n = "polyline" -> "POLYLINE"
    [] OTHER -> n

\* the scoped name of field k (from 0) of the message of the given type at p
SubField(type, p, k) == ScopedName(p, Descriptor(type)[k + 1].name)

\* ParseVector3d: the first three fields of the message at p
ParseVector3d(m, p) ==
  [k \in 1..3 |->
     GetField(m, SubField("Vector3d", p, k - 1),
              Descriptor("Vector3d")[k])[1]]

\* UpdateVector3dMsg: set the first three fields of the message at p
UpdateVector3dMsg(m, p, _value) ==
  SetField(SetField(SetField(m, SubField("Vector3d", p, 0), << _value[1] >>),
                    SubField("Vector3d", p, 1), << _value[2] >>),
           SubField("Vector3d", p, 2), << _value[3] >>)

SpecialTypes == {"Geometry", "Pose", "Vector3d", "Color", "Density"}

\* Parse, the loop over the fields of a Geometry message at p: the message
\* (MutableMessage sets has-bits) and the dimensions of the first sub-message
\* that is set, from field k (from 1) on
RECURSIVE ParseGeometryDimensions(_, _, _)
ParseGeometryDimensions(m, p, k) ==
  IF k > Len(Descriptor("Geometry")) THEN [msg |-> m, dims |-> << 0, 0, 0 >>]
  ELSE
    LET geomField == Descriptor("Geometry")[k]
        g == ScopedName(p, geomField.name)
        geomMsgName == geomField.message_type
    IN
    IF geomField.is_repeated \/ geomField.type # "TYPE_MESSAGE"
       \/ ~HasField(m, g)
    THEN ParseGeometryDimensions(m, p, k + 1)
    ELSE IF geomMsgName \in {"BoxGeom", "MeshGeom"}
    THEN LET d == SubField(geomMsgName, g,
                           IF geomMsgName = "BoxGeom" THEN 0 ELSE 1)
         IN [msg |-> MutableMessage(m, d), dims |-> ParseVector3d(m, d)]
    ELSE IF geomMsgName = "CylinderGeom"
    THEN LET radius == GetField(m, ScopedName(g, "radius"),
                                Field("radius", "TYPE_DOUBLE"))[1]
             length == GetField(m, ScopedName(g, "length"),
                                Field("length", "TYPE_DOUBLE"))[1]
         IN [msg |-> m, dims |-> << radius * 2, radius * 2, length >>]
    ELSE IF geomMsgName = "SphereGeom"
    THEN LET radius == GetField(m, ScopedName(g, "radius"),
                                Field("radius", "TYPE_DOUBLE"))[1]
         IN [msg |-> m, dims |-> << radius * 2, radius * 2, radius * 2 >>]
    ELSE ParseGeometryDimensions(m, p, k + 1)

\* Parse, case TYPE_MESSAGE for a special message type at scopedName: the
\* message and the widget (created when newWidget) after Update*Widget
ParseSpecial(m0, field, scopedName, old, newWidget) ==
  LET m == MutableMessage(m0, scopedName)
      mt == field.message_type
  IN
  CASE mt = "Geometry" ->
         LET w == IF newWidget THEN CreateGeometryWidget ELSE old
             typeField == Descriptor("Geometry")[1]
             t == ScopedName(scopedName, "type")
         IN IF HasField(m, t)
            THEN LET geometryTypeStr ==
                       toLower(EnumValueName("Geometry.Type", m[t][1]))
                     r == ParseGeometryDimensions(m, scopedName, 1)
                 IN [msg |-> r.msg,
                     widget |-> UpdateGeometryWidget(w, geometryTypeStr,
                                                     r.dims, << >>)]
            ELSE [msg |-> m, widget |-> w]
    [] mt = "Pose" ->
         LET pos == SubField("Pose", scopedName, 0)
             rot == SubField("Pose", scopedName, 1)
             m2 == MutableMessage(MutableMessage(m, pos), rot)
             quat == [k \in 1..4 |->
                        GetField(m2, SubField("Quaternion", rot, k - 1),
                                 Descriptor("Quaternion")[k])[1]]
         IN [msg |-> m2,
             widget |-> UpdatePoseWidget(
                IF newWidget THEN CreatePoseWidget ELSE old,
                << ParseVector3d(m2, pos), quat >>)]
    [] mt = "Vector3d" ->
         [msg |-> m,
          widget |-> UpdateVector3dWidget(
             IF newWidget THEN CreateVector3dWidget ELSE old,
             ParseVector3d(m, scopedName))]
    [] mt = "Color" ->
         [msg |-> m,
          widget |-> UpdateColorWidget(
             IF newWidget THEN CreateColorWidget ELSE old,
             [k \in 1..4 |->
                GetField(m, SubField("Color", scopedName, k - 1),
                         Descriptor("Color")[k])[1]])]
    [] mt = "Density" ->
         [msg |-> m,
          widget |-> UpdateDensityWidget(
             IF newWidget THEN CreateDensityWidget ELSE old,
             GetField(m, ScopedName(scopedName, "density"),
                      Field("density", "TYPE_DOUBLE"))[1])]

-----------------------------------------------------------------------------
(* Parse: build or update the widgets of one message *)

\* CreateDoubleWidget; the range is what rangeFromKey gives, which no value
\* of the model leaves
CreateDoubleWidget == [PropertyWidget("double") EXCEPT !.value = << 0 >>,
                                                       !.step = DoubleStep]

\* UpdateDoubleWidget
UpdateDoubleWidget(w, _value) ==
  [w EXCEPT !.value = << RoundToDecimals(_value, w.step) >>]

\* new BoolWidget, and BoolWidget::SetValue
CreateBoolWidget == [PropertyWidget("bool") EXCEPT !.value = << 0 >>]
BoolWidgetSetValue(w, _value) == [w EXCEPT !.value = << _value >>]

\* The state a Parse frame works on: the message copy, the widget map,
\* whether this frame has put anything into newWidgets, and whether the
\* recursion ran out of stack.
ParseState(m, widgets) ==
  [msg |-> m, widgets |-> widgets, newWidgets |-> FALSE, overflow |-> FALSE]

\* switch (field->type()) for the types with a single value: the widget
\* (created when newWidget) after Update*Widget
ScalarWidget(field, old, newWidget, value) ==
  CASE field.type \in {"TYPE_DOUBLE", "TYPE_FLOAT"} ->
         UpdateDoubleWidget(IF newWidget THEN CreateDoubleWidget ELSE old,
                            value[1])
    [] field.type \in {"TYPE_INT64", "TYPE_INT32"} ->
         UpdateIntWidget(IF newWidget THEN CreateIntWidget ELSE old,
                         LowWord(value))
    [] field.type \in {"TYPE_UINT64", "TYPE_UINT32"} ->
         UpdateUIntWidget(IF newWidget THEN CreateUIntWidget ELSE old,
                          LowWord(value))
    [] field.type = "TYPE_BOOL" ->
         BoolWidgetSetValue(IF newWidget THEN CreateBoolWidget ELSE old,
                            value[1])
    [] field.type = "TYPE_STRING" ->
         UpdateStringWidget(
           IF newWidget
           THEN CreateStringWidget(IF field.name = "innerxml" THEN "plain"
                                   ELSE "line")
           ELSE old, value)
    [] field.type = "TYPE_ENUM" ->
         UpdateEnumWidget(
           IF newWidget THEN CreateEnumWidget(EnumDescriptor(field.enum_type))
           ELSE old,
           EnumValueName(field.enum_type, value[1]))

ScalarTypes ==
  {"TYPE_DOUBLE", "TYPE_FLOAT", "TYPE_INT64", "TYPE_UINT64", "TYPE_INT32",
   "TYPE_UINT32", "TYPE_BOOL", "TYPE_STRING", "TYPE_ENUM"}

\* The widgets a nested Parse created directly inside scopedName lose their
\* parent when the PropertyWidget made for them is not put into any layout
Orphaned(before, after, scopedName) ==
  [n \in DOMAIN after |->
     IF n \notin DOMAIN before /\ after[n].parent = scopedName
     THEN [after[n] EXCEPT !.parent = "<none>"] ELSE after[n]]

\* a group box is returned also when it would be empty
ReturnsGroupBoxAlways(st) == TRUE

\* Parse returns a group box when it has created widgets, nullptr otherwise
ReturnsGroupBox(st) == st.newWidgets

\* no field is skipped
SkipsUnsetNever(_update, m, scopedName) == FALSE

\* if (_update && !ref->HasField(*_msg, field)) continue;
SkipsUnset(_update, m, scopedName) == _update /\ ~HasField(m, scopedName)

RECURSIVE ParseFrom(_, _, _, _, _, _)
RECURSIVE ParseField(_, _, _, _, _)

\* Parse(_msg, _update, _name, _level): the frame's result.  fuel is the
\* number of frames the stack still holds.
Parse(m, widgets, type, _update, _name, fuel) ==
  IF fuel = 0
  THEN [ParseState(m, widgets) EXCEPT !.overflow = TRUE]
  ELSE ParseFrom(ParseState(m, widgets), type, 1, _update, _name, fuel)

\* for (i = 0; i < count; ++i), from field i on
ParseFrom(st, type, i, _update, _name, fuel) ==
  IF st.overflow \/ i > Len(Descriptor(type)) THEN st
  ELSE ParseFrom(ParseField(st, Descriptor(type)[i], _update, _name, fuel),
                 type, i + 1, _update, _name, fuel)

\* the body of the loop for one field
ParseField(st, field, _update, _name, fuel) ==
  LET scopedName == ScopedName(_name, field.name)
      newWidget == scopedName \notin DOMAIN st.widgets
      old == IF newWidget THEN PropertyWidget("") ELSE st.widgets[scopedName]
  IN
  IF field.is_repeated THEN st
  ELSE IF SkipsUnset(_update, st.msg, scopedName) THEN st
  ELSE IF field.type \in ScalarTypes THEN
    LET w == ScalarWidget(field, old, newWidget,
                          GetField(st.msg, scopedName, field))
    IN IF newWidget
       THEN [st EXCEPT
               !.widgets = AddPropertyWidget(
                  st.widgets, scopedName, [w EXCEPT !.parent = _name]),
               !.newWidgets = TRUE]
       ELSE [st EXCEPT !.widgets[scopedName] = w]
  ELSE IF field.type = "TYPE_MESSAGE"
          /\ field.message_type \in SpecialTypes THEN
    LET r == ParseSpecial(st.msg, field, scopedName, old, newWidget)
    IN IF newWidget
       THEN [st EXCEPT
               !.msg = r.msg,
               !.widgets = AddPropertyWidget(
                  st.widgets, scopedName,
                  [r.widget EXCEPT !.parent = _name, !.group = TRUE]),
               !.newWidgets = TRUE]
       ELSE [st EXCEPT !.msg = r.msg, !.widgets[scopedName] = r.widget]
  ELSE IF field.type = "TYPE_MESSAGE" THEN
    \* parse the message fields recursively
    LET sub == Parse(MutableMessage(st.msg, scopedName), st.widgets,
                     field.message_type, _update, scopedName, fuel - 1)
    IN IF sub.overflow THEN [st EXCEPT !.overflow = TRUE]
       ELSE IF newWidget /\ ReturnsGroupBox(sub)
       THEN [st EXCEPT
               !.msg = sub.msg,
               !.widgets = AddPropertyWidget(
                  sub.widgets, scopedName,
                  [PropertyWidget("message") EXCEPT !.parent = _name,
                                                    !.group = TRUE]),
               !.newWidgets = TRUE]
       ELSE IF ReturnsGroupBox(sub)
       THEN [st EXCEPT !.msg = sub.msg,
                       !.widgets = Orphaned(st.widgets, sub.widgets,
                                            scopedName)]
       ELSE [st EXCEPT !.msg = sub.msg, !.widgets = sub.widgets]
  ELSE st

-----------------------------------------------------------------------------
(* Read-only widgets *)

\* QWidget::isEnabled of the widget registered as n: neither it nor a widget
\* that contains it was explicitly disabled
RECURSIVE isEnabled(_, _, _)
isEnabled(widgets, disabled, n) ==
  IF n \notin DOMAIN widgets THEN TRUE
  ELSE n \notin disabled /\ isEnabled(widgets, disabled, widgets[n].parent)

\* n is inside the group box of the widget registered as a
RECURSIVE IsInside(_, _, _)
IsInside(widgets, n, a) ==
  IF n \notin DOMAIN widgets THEN FALSE
  ELSE widgets[n].parent = a \/ IsInside(widgets, widgets[n].parent, a)

\* WidgetReadOnly(_name) on the given widgets
ReadOnly(widgets, disabled, _name) ==
  _name \in DOMAIN widgets /\ ~isEnabled(widgets, disabled, _name)

\* WidgetReadOnly(_name)
WidgetReadOnly(_name) == ReadOnly(configWidgets, forceDisabled, _name)

\* the explicitly disabled widgets after SetWidgetReadOnly(_name, _readOnly)
SetReadOnly(widgets, disabled, _name, _readOnly) ==
  LET touched ==
        IF widgets[_name].group
        THEN {_name} \cup {n \in DOMAIN widgets : IsInside(widgets, n, _name)}
        ELSE {_name}
  IN IF _readOnly THEN disabled \cup touched ELSE disabled \ touched

-----------------------------------------------------------------------------
(* UpdateMsg: write the widget values into the message *)

\* switch (field->type()) for the types with a single value: the message
\* after Reflection::Set* with the value of the widget
UpdateScalarField(m, field, scopedName, w) ==
  CASE field.type \in {"TYPE_DOUBLE", "TYPE_FLOAT", "TYPE_BOOL"} ->
         SetField(m, scopedName, << w.value[1] >>)
    [] field.type \in {"TYPE_INT64", "TYPE_INT32", "TYPE_UINT64"} ->
         SetField(m, scopedName, SignExtend(w.value[1]))
    [] field.type = "TYPE_UINT32" ->
         SetField(m, scopedName, ZeroExtend(w.value[1]))
    [] field.type = "TYPE_STRING" ->
         SetField(m, scopedName, w.text)
    [] field.type = "TYPE_ENUM" ->
         IF FindValueByName(field.enum_type, currentText(w)) >= 0
         THEN SetField(m, scopedName,
                       << FindValueByName(field.enum_type, currentText(w)) >>)
         ELSE m

\* UpdateMsg, case TYPE_MESSAGE for a special message type at scopedName: the
\* message after the fields are set from the widget w
UpdateSpecialMsg(m0, field, scopedName, w) ==
  LET m == MutableMessage(m0, scopedName)
      mt == field.message_type
      v == w.value
  IN
  CASE mt = "Geometry" ->
         LET geomType == currentText([w EXCEPT !.value = << v[1] >>])
             t == ScopedName(scopedName, "type")
             g == ScopedName(scopedName, geomType)
             typed == SetField(m, t, << FindValueByName("Geometry.Type",
                                                        toUpper(geomType)) >>)
         IN CASE geomType \in {"box", "mesh"} ->
                   LET geomMsgName ==
                         IF geomType = "box" THEN "BoxGeom" ELSE "MeshGeom"
                       d == SubField(geomMsgName, g,
                                     IF geomType = "box" THEN 0 ELSE 1)
                       sized == UpdateVector3dMsg(
                          MutableMessage(MutableMessage(typed, g), d), d,
                          << v[2], v[3], v[4] >>)
                   IN IF geomType = "mesh"
                      THEN SetField(sized, SubField("MeshGeom", g, 0), w.text)
                      ELSE sized
              [] geomType = "cylinder" ->
                   SetField(SetField(MutableMessage(typed, g),
                                     SubField("CylinderGeom", g, 0),
                                     << v[5] >>),
                            SubField("CylinderGeom", g, 1), << v[6] >>)
              [] geomType = "sphere" ->
                   SetField(MutableMessage(typed, g),
                            SubField("SphereGeom", g, 0), << v[5] >>)
              [] geomType = "polyline" -> typed
              [] OTHER -> m
    [] mt = "Pose" ->
         LET pos == SubField("Pose", scopedName, 0)
             rot == SubField("Pose", scopedName, 1)
             quat == QuaternionFromEuler(<< v[4], v[5], v[6] >>)
             placed == UpdateVector3dMsg(MutableMessage(m, pos), pos,
                                         << v[1], v[2], v[3] >>)
             q1 == SetField(MutableMessage(placed, rot),
                            SubField("Quaternion", rot, 0), << quat[1] >>)
             q2 == SetField(q1, SubField("Quaternion", rot, 1), << quat[2] >>)
             q3 == SetField(q2, SubField("Quaternion", rot, 2), << quat[3] >>)
         IN SetField(q3, SubField("Quaternion", rot, 3), << quat[4] >>)
    [] mt = "Vector3d" ->
         UpdateVector3dMsg(m, scopedName, << v[1], v[2], v[3] >>)
    [] mt = "Color" ->
         LET c1 == SetField(m, SubField("Color", scopedName, 0), << v[1] >>)
             c2 == SetField(c1, SubField("Color", scopedName, 1), << v[2] >>)
             c3 == SetField(c2, SubField("Color", scopedName, 2), << v[3] >>)
         IN SetField(c3, SubField("Color", scopedName, 3), << v[4] >>)
    [] mt = "Density" ->
         SetField(m, ScopedName(scopedName, "density"), << v[2] >>)

\* every field is written
SkipFieldNever(widgets, disabled, scopedName) == FALSE

\* don't update msgs field that are associated with read-only widgets
SkipField(widgets, disabled, scopedName) ==
  ReadOnly(widgets, disabled, scopedName)

RECURSIVE UpdateMsgFrom(_, _, _, _, _, _)
RECURSIVE UpdateMsgField(_, _, _, _, _)

\* UpdateMsg(_msg, _name)
UpdateMsg(m, widgets, disabled, type, _name) ==
  UpdateMsgFrom(m, widgets, disabled, type, 1, _name)

\* for (i = 0; i < count; ++i), from field i on
UpdateMsgFrom(m, widgets, disabled, type, i, _name) ==
  IF i > Len(Descriptor(type)) THEN m
  ELSE UpdateMsgFrom(
         UpdateMsgField(m, widgets, disabled, Descriptor(type)[i], _name),
         widgets, disabled, type, i + 1, _name)

\* the body of the loop for one field
UpdateMsgField(m, widgets, disabled, field, _name) ==
  LET scopedName == ScopedName(_name, field.name) IN
  IF field.is_repeated THEN m
  ELSE IF scopedName \notin DOMAIN widgets THEN m
  ELSE IF SkipField(widgets, disabled, scopedName) THEN m
  ELSE IF field.type \in ScalarTypes
  THEN UpdateScalarField(m, field, scopedName, widgets[scopedName])
  ELSE IF field.type = "TYPE_MESSAGE"
          /\ field.message_type \in SpecialTypes
  THEN UpdateSpecialMsg(m, field, scopedName, widgets[scopedName])
  ELSE IF field.type = "TYPE_MESSAGE"
  THEN UpdateMsg(MutableMessage(m, scopedName), widgets, disabled,
                 field.message_type, scopedName)
  ELSE m

-----------------------------------------------------------------------------
(* The messages given to Load and UpdateFromMsg *)

\* a message with the given fields set
Message(fields) ==
  [p \in { f[1] : f \in fields } |->
     (CHOOSE f \in fields : f[1] = p)[2]]

\* i32: 7, -100000001 and 100000000; i64: -7 and 2^32 + 7
InputsInts ==
  { EmptyMsg,
    Message({ << "i32", << 7, 0 >> >>, << "i64", << -7, -1 >> >> }),
    Message({ << "i32", << -100000001, -1 >> >> }),
    Message({ << "i64", << 7, 1 >> >> }),
    Message({ << "i32", << 100000000, 0 >> >>, << "i64", << -7, -1 >> >> }) }

\* u32: 7 and 3000000000; u64: 100000001 and 2^32 + 7
InputsUInts ==
  { EmptyMsg,
    Message({ << "u32", << 7, 0 >> >>, << "u64", << 100000001, 0 >> >> }),
    Message({ << "u32", << -1294967296, 0 >> >> }),
    Message({ << "u64", << 7, 1 >> >> }) }

\* s: "a" and "a\0b"; e: GREEN and RED; innerxml: "a"
InputsText ==
  { EmptyMsg,
    Message({ << "s", << 97 >> >>, << "e", << 1 >> >> }),
    Message({ << "s", << 97, 0, 98 >> >> }),
    Message({ << "e", << 0 >> >>, << "innerxml", << 97 >> >> }) }

InputsOuter ==
  { EmptyMsg,
    Message({ << "child", << >> >>, << "child::x", << 7, 0 >> >>,
              << "child::r", << 7 >> >>, << "flag", << 1 >> >>,
              << "raw", << 1 >> >> }),
    Message({ << "child", << >> >>, << "blank", << >> >> }),
    Message({ << "child", << >> >>, << "child::x", << 100000001, 0 >> >>,
              << "child::z", << 5 >> >>, << "items", << 7 >> >>,
              << "flag", << 0 >> >> }) }

InputsNode ==
  { EmptyMsg,
    Message({ << "v", << 7, 0 >> >> }),
    Message({ << "next", << >> >>, << "next::v", << 7, 0 >> >> }) }

InputsPing ==
  { EmptyMsg, Message({ << "pong", << >> >> }) }

\* pose: at (1, 0, 0.0000004) without rotation; scale: (0, 0, 1), which is
\* a preset; ambient: (0.5, 0.0004, 1.5, 1)
InputsVisual ==
  { EmptyMsg,
    Message({ << "pose", << >> >>, << "pose::position", << >> >>,
              << "pose::position::x", << 1000000000 >> >>,
              << "pose::position::z", << 400 >> >>,
              << "pose::orientation", << >> >>,
              << "pose::orientation::w", << 1000000000 >> >> }),
    Message({ << "scale", << >> >>, << "scale::z", << 1000000000 >> >>,
              << "ambient", << >> >>, << "ambient::r", << 500000000 >> >>,
              << "ambient::g", << 400000 >> >>,
              << "ambient::b", << 1500000000 >> >>,
              << "ambient::a", << 1000000000 >> >> }) }

\* geometry: a box of 2 x 1 x 1, a cylinder of radius 0.25 and length 2, and
\* a geometry without a type; density: 1.55; mass: 1.5; bounce: 0.5
InputsCollision ==
  { EmptyMsg,
    Message({ << "geometry", << >> >>, << "geometry::type", << 0 >> >>,
              << "geometry::box", << >> >>,
              << "geometry::box::size", << >> >>,
              << "geometry::box::size::x", << 2000000000 >> >>,
              << "geometry::box::size::y", << 1000000000 >> >>,
              << "geometry::box::size::z", << 1000000000 >> >>,
              << "mass", << 1500000000 >> >> }),
    Message({ << "geometry", << >> >>, << "geometry::type", << 1 >> >>,
              << "geometry::cylinder", << >> >>,
              << "geometry::cylinder::radius", << 250000000 >> >>,
              << "geometry::cylinder::length", << 2000000000 >> >>,
              << "density", << >> >>,
              << "density::density", << 1550000000 >> >> }),
    Message({ << "geometry", << >> >>, << "bounce", << 500000000 >> >> }) }

InputMessages(type) ==
  CASE type = "Ints" -> InputsInts
    [] type = "UInts" -> InputsUInts
    [] type = "Text" -> InputsText
    [] type = "Outer" -> InputsOuter
    [] type = "Node" -> InputsNode
    [] type = "Ping" -> InputsPing
    [] type = "Visual" -> InputsVisual
    [] type = "Collision" -> InputsCollision

\* the arguments of the setters: -7, 5 and 100000001 as int; 5 and
\* 3000000000 as unsigned int; "b" and "b\0c"; the texts of combo box items
IntValues == { -7, 5, 100000001 }
UIntValues == { 5, -1294967296 }
StringValues == { << 98 >>, << 98, 0, 99 >> }
ItemTexts == { "GREEN", "BLUE" }

\* the names the calls are made with: the registered ones and one that is not
Names == DOMAIN configWidgets \cup { "missing" }

-----------------------------------------------------------------------------
(* The calls *)

NoWidgets == [n \in {} |-> PropertyWidget("")]

\* a public call: the method, its _name argument, what it returned, and its
\* value argument (arg for numbers and strings, item for combo box texts)
CallWith(op, name, ret, arg, item) ==
  [op |-> op, name |-> name, ret |-> ret, arg |-> arg, item |-> item,
   child |-> nullptr]
Call(op, name, ret) == CallWith(op, name, ret, << >>, "")

\* a MessageWidget after construction, for a message type
MessageWidgetInit(types) ==
  /\ root \in types
  /\ msg = NoMsg
  /\ configWidgets = NoWidgets
  /\ forceDisabled = { }
  /\ status = "running"
  /\ lastOp = Call("new", "", TRUE)
  /\ loadedMsg = NoMsg
  /\ synced = ""
  /\ calls = 0

\* one more public call of the MessageWidget, which touches nothing else
Called ==
  /\ calls < MaxCalls
  /\ calls' = calls + 1
  /\ UNCHANGED <<dockVars, tpVars, evVars>>

\* the process dies inside the call op
Crash(op, name) ==
  /\ status' = "crashed"
  /\ lastOp' = Call(op, name, FALSE)
  /\ UNCHANGED <<root, msg, configWidgets, forceDisabled, loadedMsg, synced>>

\* Load(_msg): copy the message and build the widgets.  The model calls it
\* once per widget, as the first call.
Load(_msg) ==
  /\ status = "running"
  /\ Called
  /\ msg = NoMsg
  /\ LET r == Parse(_msg, configWidgets, root, FALSE, "", MaxStack) IN
       IF r.overflow THEN Crash("Load", "")
       ELSE /\ msg' = r.msg
            /\ configWidgets' = r.widgets
            /\ loadedMsg' = _msg
            /\ synced' = "Load"
            /\ lastOp' = Call("Load", "", TRUE)
            /\ UNCHANGED <<root, forceDisabled, status>>

\* the widgets are thrown away and built again from the set fields
UpdateFromMsgRebuild(_msg) ==
  /\ status = "running"
  /\ Called
  /\ msg # NoMsg
  /\ LET r == Parse(_msg, NoWidgets, root, TRUE, "", MaxStack) IN
       /\ msg' = r.msg
       /\ configWidgets' = r.widgets
       /\ loadedMsg' = _msg
       /\ synced' = "UpdateFromMsg"
       /\ lastOp' = Call("UpdateFromMsg", "", TRUE)
       /\ UNCHANGED <<root, forceDisabled, status>>

\* UpdateFromMsg(_msg): copy the message and update the widgets of its set
\* fields
UpdateFromMsg(_msg) ==
  /\ status = "running"
  /\ Called
  /\ msg # NoMsg
  /\ LET r == Parse(_msg, configWidgets, root, TRUE, "", MaxStack) IN
       IF r.overflow THEN Crash("UpdateFromMsg", "")
       ELSE /\ msg' = r.msg
            /\ configWidgets' = r.widgets
            /\ loadedMsg' = _msg
            /\ synced' = "UpdateFromMsg"
            /\ lastOp' = Call("UpdateFromMsg", "", TRUE)
            /\ UNCHANGED <<root, forceDisabled, status>>

\* the message Msg() returns in this state
MsgResult == UpdateMsg(msg, configWidgets, forceDisabled, root, "")

\* Msg(): write the widget values into the message copy and return it
Msg ==
  /\ status = "running"
  /\ Called
  /\ msg # NoMsg
  /\ msg' = MsgResult
  /\ lastOp' = Call("Msg", "", TRUE)
  /\ UNCHANGED <<root, configWidgets, forceDisabled, status, loadedMsg,
                 synced>>

\* UpdateFromMsg and Msg dereference the null message before Load
UseBeforeLoad ==
  /\ status = "running"
  /\ Called
  /\ msg = NoMsg
  /\ Crash("Msg", "")

\* SetWidgetReadOnly(_name, _readOnly)
SetWidgetReadOnly(_name, _readOnly) ==
  /\ status = "running"
  /\ Called
  /\ _name \in DOMAIN configWidgets
  /\ forceDisabled' =
       SetReadOnly(configWidgets, forceDisabled, _name, _readOnly)
  /\ lastOp' = Call("SetWidgetReadOnly", _name, TRUE)
  /\ UNCHANGED <<root, msg, configWidgets, status, loadedMsg, synced>>

\* the children a caller makes to register them: none, a number, a string
UserChildren == {nullptr, CreateIntWidget, CreateStringWidget("line")}

\* the names they are registered with: none, a new one, or a registered one
UserNames == DOMAIN configWidgets \cup {"", "extra"}

\* AddPropertyWidget(_name, _child), called with a child the caller has just
\* made; lastOp.child is that child as the call leaves it
CallAddPropertyWidget(_name, _child) ==
  /\ status = "running"
  /\ Called
  /\ configWidgets' = AddPropertyWidget(configWidgets, _name, _child)
  /\ lastOp' =
       [Call("AddPropertyWidget", _name,
             AddPropertyWidgetOk(configWidgets, _name, _child))
        EXCEPT !.child =
          IF AddPropertyWidgetOk(configWidgets, _name, _child)
          THEN AddPropertyWidget(configWidgets, _name, _child)[_name]
          ELSE _child]
  /\ UNCHANGED <<root, msg, forceDisabled, status, loadedMsg, synced>>

\* what a setter does to the widget registered as _name, by the number of
\* widgets[] it checks and the class it casts widgets[0] to: "ok", "false"
\* (it returns false) or "null" (it calls through a null pointer)
SetterOutcome(w, classes, checksCast) ==
  IF WidgetsSize(w) # 1 THEN "false"
  ELSE IF Widget0Class(w) \in classes THEN "ok"
  ELSE IF checksCast THEN "false" ELSE "null"

\* the common part of Set*WidgetValue(_name, _value)
SetWidgetValue(op, _name, arg, item, outcome, ok, updated) ==
  /\ status = "running"
  /\ Called
  /\ IF _name \notin DOMAIN configWidgets
     THEN /\ lastOp' = CallWith(op, _name, FALSE, arg, item)
          /\ UNCHANGED <<root, msg, configWidgets, forceDisabled, status,
                         loadedMsg, synced>>
     ELSE IF outcome = "null" THEN Crash(op, _name)
     ELSE IF outcome = "false" \/ ~ok
     THEN /\ lastOp' = CallWith(op, _name, FALSE, arg, item)
          /\ UNCHANGED <<root, msg, configWidgets, forceDisabled, status,
                         loadedMsg, synced>>
     ELSE /\ configWidgets' = [configWidgets EXCEPT ![_name] = updated]
          /\ synced' = ""
          /\ lastOp' = CallWith(op, _name, TRUE, arg, item)
          /\ UNCHANGED <<root, msg, forceDisabled, status, loadedMsg>>

\* a widget record to evaluate the setters on when _name is not registered
WidgetAt(_name) ==
  IF _name \in DOMAIN configWidgets THEN configWidgets[_name]
  ELSE PropertyWidget("")

\* SetIntWidgetValue(_name, _value)
SetIntWidgetValue(_name, _value) ==
  LET w == WidgetAt(_name) IN
  SetWidgetValue("SetIntWidgetValue", _name, << _value >>, "",
                 SetterOutcome(w, {"QSpinBox"}, FALSE), TRUE,
                 UpdateIntWidget(w, _value))

\* the geometries a caller sets: a sphere and a cylinder of half a metre,
\* and a type the combo box does not have
GeometryValues == {"sphere", "cylinder", "triangle"}
GeometryDimensions == {<< Half, Half, Half >>}

\* SetGeometryWidgetValue(_name, _value, _dimensions, _uri)
SetGeometryWidgetValue(_name, _value, _dimensions, _uri) ==
  LET w == WidgetAt(_name) IN
  SetWidgetValue("SetGeometryWidgetValue", _name, _dimensions, _value,
                 IF WidgetsSize(w) # 8 THEN "false" ELSE "ok",
                 UpdateGeometryWidgetOk(w, _value),
                 UpdateGeometryWidget(w, _value, _dimensions, _uri))

\* UpdateFromMsg(Msg()): the message Msg() has just returned is fed back
UpdateFromMsgOfMsg ==
  /\ lastOp.op = "Msg"
  /\ lastOp.ret
  /\ UpdateFromMsg(msg)

\* SetUIntWidgetValue(_name, _value), _value the word of the unsigned int
SetUIntWidgetValue(_name, _value) ==
  LET w == WidgetAt(_name) IN
  SetWidgetValue("SetUIntWidgetValue", _name, << _value >>, "",
                 SetterOutcome(w, {"QSpinBox"}, FALSE), TRUE,
                 UpdateUIntWidget(w, _value))

\* SetStringWidgetValue(_name, _value)
SetStringWidgetValue(_name, _value) ==
  LET w == WidgetAt(_name) IN
  SetWidgetValue("SetStringWidgetValue", _name, _value, "",
                 SetterOutcome(w, {"QLineEdit", "QPlainTextEdit"}, TRUE),
                 TRUE, UpdateStringWidget(w, _value))

\* SetEnumWidgetValue(_name, _value)
SetEnumWidgetValue(_name, _value) ==
  LET w == WidgetAt(_name) IN
  SetWidgetValue("SetEnumWidgetValue", _name, << >>, _value,
                 SetterOutcome(w, {"QComboBox"}, TRUE),
                 UpdateEnumWidgetOk(w, _value), UpdateEnumWidget(w, _value))

\* IntWidgetValue(_name), UIntWidgetValue(_name) (the word of the unsigned
\* int), StringWidgetValue(_name), EnumWidgetValue(_name)
IntWidgetValue(_name) ==
  IF _name \in DOMAIN configWidgets THEN configWidgets[_name].value[1] ELSE 0
UIntWidgetValue(_name) ==
  IF _name \in DOMAIN configWidgets THEN configWidgets[_name].value[1] ELSE 0
StringWidgetValue(_name) ==
  IF _name \in DOMAIN configWidgets THEN configWidgets[_name].text ELSE << >>
EnumWidgetValue(_name) ==
  IF _name \in DOMAIN configWidgets THEN currentText(configWidgets[_name])
  ELSE ""

\* QComboBox::addItem: an empty combo box shows the item it is given
addItem(w, _itemText) ==
  [w EXCEPT !.items = Append(w.items, _itemText),
            !.value = << IF w.value[1] < 0 THEN 0 ELSE w.value[1] >>]

\* QComboBox::removeItem(index): the current index follows its item, and
\* stays at the row of a removed current item while there is one
removeItem(w, index) ==
  LET cur == w.value[1]
      count == Len(w.items) - 1
  IN [w EXCEPT
        !.items = [k \in 1..count |->
                     IF k <= index THEN w.items[k] ELSE w.items[k + 1]],
        !.value = << IF cur > index THEN cur - 1
                     ELSE IF cur = index
                     THEN (IF index < count THEN index ELSE count - 1)
                     ELSE cur >>]

\* the common part of the calls on the combo box of the enum widget at _name
EnumWidgetCall(op, _name, _itemText, ok, updated) ==
  /\ status = "running"
  /\ Called
  /\ IF _name \notin DOMAIN configWidgets
     THEN /\ lastOp' = CallWith(op, _name, FALSE, << >>, _itemText)
          /\ UNCHANGED <<root, msg, configWidgets, forceDisabled, status,
                         loadedMsg, synced>>
     \* dynamic_cast<EnumWidget *> gives nullptr, which is dereferenced
     ELSE IF configWidgets[_name].kind # "enum" THEN Crash(op, _name)
     ELSE IF ~ok
     THEN /\ lastOp' = CallWith(op, _name, FALSE, << >>, _itemText)
          /\ UNCHANGED <<root, msg, configWidgets, forceDisabled, status,
                         loadedMsg, synced>>
     ELSE /\ configWidgets' = [configWidgets EXCEPT ![_name] = updated]
          /\ synced' = ""
          /\ lastOp' = CallWith(op, _name, TRUE, << >>, _itemText)
          /\ UNCHANGED <<root, msg, forceDisabled, status, loadedMsg>>

\* ClearEnumWidget(_name)
ClearEnumWidget(_name) ==
  EnumWidgetCall("ClearEnumWidget", _name, "", TRUE,
                 [WidgetAt(_name) EXCEPT !.items = << >>, !.value = << -1 >>])

\* AddItemEnumWidget(_name, _itemText)
AddItemEnumWidget(_name, _itemText) ==
  /\ Len(WidgetAt(_name).items) < MaxItems
  /\ EnumWidgetCall("AddItemEnumWidget", _name, _itemText, TRUE,
                    addItem(WidgetAt(_name), _itemText))

\* RemoveItemEnumWidget(_name, _itemText)
RemoveItemEnumWidget(_name, _itemText) ==
  LET w == WidgetAt(_name) IN
  EnumWidgetCall("RemoveItemEnumWidget", _name, _itemText,
                 findText(w.items, _itemText) >= 0,
                 removeItem(w, findText(w.items, _itemText)))

-----------------------------------------------------------------------------
(* Dock *)

Plugins == {"p1", "p2", "p3"}

NoPlugin == "<nullptr>"

\* the elements of a sequence
Range(seq) == { seq[k] : k \in 1..Len(seq) }

\* findChild<Plugin *>(): the first Plugin below the Dock, or nullptr
findChild(children) == IF children = << >> THEN NoPlugin ELSE Head(children)

\* Closing is emitted after the plugin was set free
DockCloseStepsDetachFirst(plugin) ==
  IF plugin = NoPlugin
  THEN << "ignerr", "QDockWidget::closeEvent" >>
  ELSE << "setParent", "Closing", "QDockWidget::closeEvent" >>

\* Closing is emitted whether or not there is a plugin
DockCloseStepsAlwaysClosing(plugin) ==
  IF plugin = NoPlugin
  THEN << "ignerr", "Closing", "QDockWidget::closeEvent" >>
  ELSE << "Closing", "setParent", "QDockWidget::closeEvent" >>

\* Dock::closeEvent: the statements it executes, in order
DockCloseSteps(plugin) ==
  IF plugin = NoPlugin
  THEN << "ignerr", "QDockWidget::closeEvent" >>
  ELSE << "Closing", "setParent", "QDockWidget::closeEvent" >>

\* the Dock while it handles a close event
DockState(children, plugin) ==
  [children |-> children, plugin |-> plugin, emitted |-> 0, base |-> 0,
   log |-> << >>]

\* one statement of Dock::closeEvent; the log keeps, with each statement,
\* whether the plugin was a child of the Dock right after it
DockStep(st, step) ==
  LET children == IF step = "setParent"
                  THEN SelectSeq(st.children, LAMBDA c : c # st.plugin)
                  ELSE st.children
  IN [st EXCEPT
        !.children = children,
        !.emitted = IF step = "Closing" THEN @ + 1 ELSE @,
        !.base = IF step = "QDockWidget::closeEvent" THEN @ + 1 ELSE @,
        !.log = Append(@, [ev |-> step, plugin |-> st.plugin,
                            isChild |-> st.plugin \in Range(children)])]

RECURSIVE DockRun(_, _)
DockRun(st, steps) ==
  IF steps = << >> THEN st
  ELSE DockRun(DockStep(st, Head(steps)), Tail(steps))

DockInit ==
  /\ dockChildren = << >>
  /\ dockOp = "Dock"
  /\ closeEvents = 0
  /\ baseCloses = 0
  /\ closingEmitted = 0
  /\ closings = [p \in Plugins |-> 0]
  /\ attached = [p \in Plugins |-> 0]
  /\ closeLog = << >>

\* Dock::SetWidget(_widget) with a plugin that is not in the Dock
SetWidget(_widget) ==
  /\ _widget \notin Range(dockChildren)
  /\ attached[_widget] < MaxAttach
  /\ dockChildren' = Append(dockChildren, _widget)
  /\ attached' = [attached EXCEPT ![_widget] = @ + 1]
  /\ dockOp' = "SetWidget"
  /\ UNCHANGED <<closeEvents, baseCloses, closingEmitted, closings, closeLog>>
  /\ UNCHANGED <<mwVars, tpVars, evVars>>

\* Dock::closeEvent(_e)
closeEvent ==
  /\ closeEvents < MaxCloses
  /\ LET plugin == findChild(dockChildren)
         st == DockRun(DockState(dockChildren, plugin),
                       DockCloseSteps(plugin))
     IN /\ dockChildren' = st.children
        /\ closingEmitted' = closingEmitted + st.emitted
        /\ closings' = [p \in Plugins |->
                          IF p = plugin THEN closings[p] + st.emitted
                          ELSE closings[p]]
        /\ baseCloses' = baseCloses + st.base
        /\ closeLog' = st.log
  /\ closeEvents' = closeEvents + 1
  /\ dockOp' = "closeEvent"
  /\ UNCHANGED attached
  /\ UNCHANGED <<mwVars, tpVars, evVars>>

DockNext ==
  \/ \E p \in Plugins : SetWidget(p)
  \/ closeEvent

-----------------------------------------------------------------------------
(* TimePanel *)

\* the configurations: <play_pause>, <start_paused>, <service>, <topic>
Configs ==
  [play_pause : BOOLEAN, start_paused : BOOLEAN,
   service : {"", "/world_control_test"},
   title : {"", "World Control!"},
   sim_time : BOOLEAN, real_time : BOOLEAN, real_time_factor : BOOLEAN,
   topic : {"", "/world_stats_test", "incorrect   topic  with spaces"}]

\* a <plugin> element with no <world_control> and no <world_stats>
NoConfig ==
  [play_pause |-> FALSE, start_paused |-> FALSE, service |-> "",
   title |-> "",
   sim_time |-> FALSE, real_time |-> FALSE, real_time_factor |-> FALSE,
   topic |-> ""]

\* the topic is one the transport can subscribe to
ValidTopic(_topic) ==
  _topic \notin {"", "incorrect   topic  with spaces"}

\* the label of each WorldStatistics field, and the element that asks for it
Labels ==
  [sim_time |-> "simTimeLabel", real_time |-> "realTimeLabel",
   real_time_factor |-> "realTimeFactorLabel"]

\* the panel has the label of this field
HasLabel(_field) == ValidTopic(tpConfig.topic) /\ tpConfig[_field]

\* the text "N/A"
NA == << >>

\* common::Time::FormattedString of <<sec, nsec>>: "DD HH:MM:SS.mmm" as
\* <<DD, HH, MM, SS, mmm>>
FormattedString(_time) ==
  LET sec == _time[1]
      nsec == _time[2]
  IN << sec \div 86400, (sec % 86400) \div 3600, (sec % 3600) \div 60,
        sec % 60, nsec \div 1000000 >>

\* the real time factor (in units of 1e-6) as a percentage with two
\* decimals: "100.00 %" as <<10000>>
PercentString(_rtf) == << (_rtf[1] + 50) \div 100 >>

\* the text a label shows for the value of its field
LabelText(_field, _value) ==
  IF _field = "real_time_factor" THEN PercentString(_value)
  ELSE FormattedString(_value)

\* a label goes back to "N/A" when the message does not carry its field
LabelAfterReset(_field, _msg) ==
  IF HasLabel(_field) /\ HasField(_msg, _field)
  THEN LabelText(_field, _msg[_field])
  ELSE NA

\* the text of a label once the panel has processed _msg
LabelAfter(_field, _msg) ==
  IF HasLabel(_field) /\ HasField(_msg, _field)
  THEN LabelText(_field, _msg[_field])
  ELSE tpLabels[Labels[_field]]

\* the stats labels are made whatever the topic is
LoadConfigAnyTopic(_config) ==
  [loaded |-> TRUE,
   plugins |-> 1,
   title |-> IF _config.title = "" THEN "Time panel" ELSE _config.title,
   children |->
     {"spacer1", "spacer2"}
     \cup (IF _config.play_pause /\ _config.service # ""
           THEN {"playButton", "pauseButton", "stepButton"} ELSE {})
     \cup {Labels[f] : f \in {g \in DOMAIN Labels : _config[g]}}]

\* loadPlugin("TimePanel", _pluginElem) and TimePanel::LoadConfig: the plugin
\* is loaded whatever the configuration is; it has two spacers, the three
\* buttons when play_pause is asked for and a service is given, and each
\* label asked for when the topic is valid
LoadConfig(_config) ==
  [loaded |-> TRUE,
   plugins |-> 1,
   title |-> IF _config.title = "" THEN "Time panel" ELSE _config.title,
   children |->
     {"spacer1", "spacer2"}
     \cup (IF _config.play_pause /\ _config.service # ""
           THEN {"playButton", "pauseButton", "stepButton"} ELSE {})
     \cup {Labels[f] : f \in {g \in DOMAIN Labels :
                                ValidTopic(_config.topic) /\ _config[g]}}]

\* the WorldStatistics messages published: those of the test, one that
\* carries nothing but paused, and one that carries every field
StatsMessages ==
  { [paused |-> TRUE, sim_time |-> <<3600, 123456789>>],
    [paused |-> TRUE, real_time |-> <<86400, 1000000>>],
    [paused |-> TRUE, real_time_factor |-> <<1000000>>],
    [paused |-> FALSE],
    [paused |-> TRUE],
    [paused |-> FALSE, sim_time |-> <<59, 999999999>>,
     real_time |-> <<86400, 1000000>>, real_time_factor |-> <<1234567>>] }

\* the panel has the play, pause and step buttons
HasWorldControl == tpConfig.play_pause /\ tpConfig.service # ""

\* the step button stays disabled
ButtonsStepStuck(paused) ==
  [play |-> paused, pause |-> ~paused, step |-> FALSE]

\* the buttons once the world is known to be paused or playing
Buttons(paused) == [play |-> paused, pause |-> ~paused, step |-> paused]

NoRequest == [pause |-> FALSE, multi_step |-> 0, sent |-> FALSE]

TimePanelInit ==
  /\ tpConfig \in Configs
  /\ playVisible = (HasWorldControl /\ Buttons(tpConfig.start_paused).play)
  /\ pauseVisible = (HasWorldControl /\ Buttons(tpConfig.start_paused).pause)
  /\ stepEnabled = (HasWorldControl /\ Buttons(tpConfig.start_paused).step)
  /\ tpInbox = << >>
  /\ tpRequest = NoRequest
  /\ tpEvents = 0
  /\ tpOp = [op |-> "", result |-> FALSE]
  /\ tpRequests = 0
  /\ tpLabels = [l \in {Labels[f] : f \in DOMAIN Labels} |-> NA]
  /\ tpPlugin = LoadConfig(tpConfig)

\* one more click or message
Handled ==
  /\ tpEvents < MaxEvents
  /\ tpEvents' = tpEvents + 1
  /\ UNCHANGED <<mwVars, dockVars, evVars>>

\* the world is now paused or playing: the buttons follow when there are any
SetPaused(paused) ==
  IF HasWorldControl
  THEN /\ playVisible' = Buttons(paused).play
       /\ pauseVisible' = Buttons(paused).pause
       /\ stepEnabled' = Buttons(paused).step
  ELSE UNCHANGED <<playVisible, pauseVisible, stepEnabled>>

\* a request that plays the world, where one that pauses it is due
RequestPlays(_op, _result, _req) ==
  /\ tpRequest' = [_req EXCEPT !.pause = FALSE]
  /\ tpRequests' = tpRequests + 1
  /\ tpOp' = [op |-> _op, result |-> _result]

\* node.Request(service, req, cb): one request goes to the service, which
\* answers it (_result) or not
Request(_op, _result, _req) ==
  /\ tpRequest' = _req
  /\ tpRequests' = tpRequests + 1
  /\ tpOp' = [op |-> _op, result |-> _result]

\* playButton->click(): a request with pause false; the buttons change when
\* the service answers
OnPlay(_result) ==
  /\ Handled
  /\ playVisible
  /\ Request("OnPlay", _result,
             [pause |-> FALSE, multi_step |-> 0, sent |-> TRUE])
  /\ IF _result THEN SetPaused(FALSE)
     ELSE UNCHANGED <<playVisible, pauseVisible, stepEnabled>>
  /\ UNCHANGED <<tpConfig, tpInbox, tpLabels, tpPlugin>>

\* pauseButton->click(): a request with pause true
OnPause(_result) ==
  /\ Handled
  /\ pauseVisible
  /\ Request("OnPause", _result,
             [pause |-> TRUE, multi_step |-> 0, sent |-> TRUE])
  /\ IF _result THEN SetPaused(TRUE)
     ELSE UNCHANGED <<playVisible, pauseVisible, stepEnabled>>
  /\ UNCHANGED <<tpConfig, tpInbox, tpLabels, tpPlugin>>

\* stepButton->click(): a request with multi_step 1; the buttons stay
OnStep(_result) ==
  /\ Handled
  /\ HasWorldControl
  /\ stepEnabled
  /\ Request("OnStep", _result,
             [pause |-> TRUE, multi_step |-> 1, sent |-> TRUE])
  /\ UNCHANGED <<tpConfig, tpInbox, tpLabels, tpPlugin, playVisible,
                 pauseVisible, stepEnabled>>

\* a WorldStatistics message is published on the topic of the panel
Publish(_msg) ==
  /\ ValidTopic(tpConfig.topic)
  /\ Len(tpInbox) < MaxInFlight
  /\ tpInbox' = Append(tpInbox, _msg)
  /\ UNCHANGED <<tpConfig, playVisible, pauseVisible, stepEnabled, tpRequest,
                 tpEvents, tpOp, tpRequests, tpLabels, tpPlugin>>
  /\ UNCHANGED <<mwVars, dockVars, evVars>>

\* the panel processes the oldest message it has received
ProcessMsg ==
  /\ Handled
  /\ tpInbox # << >>
  /\ SetPaused(Head(tpInbox).paused)
  /\ tpLabels' = [l \in DOMAIN tpLabels |->
                    LET f == CHOOSE f \in DOMAIN Labels : Labels[f] = l
                    IN LabelAfter(f, Head(tpInbox))]
  /\ tpInbox' = Tail(tpInbox)
  /\ tpOp' = [op |-> "ProcessMsg", result |-> TRUE]
  /\ UNCHANGED <<tpConfig, tpRequest, tpRequests, tpPlugin>>

TimePanelNext ==
  \/ \E r \in BOOLEAN : OnPlay(r)
  \/ \E r \in BOOLEAN : OnPause(r)
  \/ \E r \in BOOLEAN : OnStep(r)
  \/ \E m \in StatsMessages : Publish(m)
  \/ ProcessMsg

-----------------------------------------------------------------------------
(* The events of GuiEvents.hh *)

\* QEvent::User and QEvent::MaxUser
QEventUser == 1000
QEventMaxUser == 65535

EventClasses ==
  {"Render", "SnapIntervals", "SpawnPreviewModel", "SpawnPreviewPath",
   "HoverToScene", "LeftClickToScene"}

\* LeftClickToScene has the type of HoverToScene
kTypeShared(_class) ==
  CASE _class = "Render" -> QEventMaxUser
    [] _class = "SnapIntervals" -> QEventUser
    [] _class = "SpawnPreviewModel" -> QEventUser + 4
    [] _class = "SpawnPreviewPath" -> QEventUser + 5
    [] _class = "HoverToScene" -> QEventUser + 6
    [] _class = "LeftClickToScene" -> QEventUser + 6

\* static const QEvent::Type kType of each event class
kType(_class) ==
  CASE _class = "Render" -> QEventMaxUser
    [] _class = "SnapIntervals" -> QEventUser
    [] _class = "SpawnPreviewModel" -> QEventUser + 4
    [] _class = "SpawnPreviewPath" -> QEventUser + 5
    [] _class = "HoverToScene" -> QEventUser + 6
    [] _class = "LeftClickToScene" -> QEventUser + 7

NoEvent == [class |-> "", type |-> 0, matches |-> {}]

EventInit ==
  /\ postedEvents = << >>
  /\ delivered = NoEvent
  /\ deliveries = 0

\* an event of class _class is constructed, QEvent(kType), and posted
PostEvent(_class) ==
  /\ Len(postedEvents) < MaxPosted
  /\ postedEvents' =
       Append(postedEvents, [class |-> _class, type |-> kType(_class)])
  /\ UNCHANGED <<delivered, deliveries>>
  /\ UNCHANGED <<mwVars, dockVars, tpVars>>

\* the oldest event is delivered: a receiver takes it for an event of each
\* class whose kType its type() equals
DeliverEvent ==
  /\ postedEvents # << >>
  /\ deliveries < MaxDeliveries
  /\ deliveries' = deliveries + 1
  /\ delivered' =
       [class |-> Head(postedEvents).class,
        type |-> Head(postedEvents).type,
        matches |-> {c \in EventClasses : kType(c) = Head(postedEvents).type}]
  /\ postedEvents' = Tail(postedEvents)
  /\ UNCHANGED <<mwVars, dockVars, tpVars>>

EventNext ==
  \/ \E c \in EventClasses : PostEvent(c)
  \/ DeliverEvent

-----------------------------------------------------------------------------
(* The specifications *)

\* a MessageWidget, next to a Dock and a TimePanel that nobody uses
Init ==
  /\ MessageWidgetInit(Roots)
  /\ DockInit
  /\ TimePanelInit /\ tpConfig = NoConfig
  /\ EventInit

Next ==
  \/ \E m \in InputMessages(root) : Load(m)
  \/ \E m \in InputMessages(root) : UpdateFromMsg(m)
  \/ Msg
  \/ UseBeforeLoad
  \/ \E n \in DOMAIN configWidgets, ro \in BOOLEAN : SetWidgetReadOnly(n, ro)
  \/ \E n \in Names, v \in IntValues : SetIntWidgetValue(n, v)
  \/ \E n \in Names, v \in UIntValues : SetUIntWidgetValue(n, v)
  \/ \E n \in Names, v \in StringValues : SetStringWidgetValue(n, v)
  \/ \E n \in Names, v \in ItemTexts : SetEnumWidgetValue(n, v)
  \/ \E n \in Names : ClearEnumWidget(n)
  \/ \E n \in Names, v \in ItemTexts : AddItemEnumWidget(n, v)
  \/ \E n \in Names, v \in ItemTexts : RemoveItemEnumWidget(n, v)

Spec == Init /\ [][Next]_vars

\* a MessageWidget whose caller registers widgets of its own, before and
\* after Load
RegisterNext ==
  \/ \E m \in InputMessages(root) : Load(m)
  \/ \E n \in UserNames, c \in UserChildren : CallAddPropertyWidget(n, c)
  \/ Msg

RegisterSpec == Init /\ [][RegisterNext]_vars

\* a MessageWidget whose widgets are edited and whose message is read and
\* fed back
RoundTripNext ==
  \/ \E m \in InputMessages(root) : Load(m)
  \/ Msg
  \/ UpdateFromMsgOfMsg
  \/ \E n \in Names, v \in GeometryValues, d \in GeometryDimensions :
       SetGeometryWidgetValue(n, v, d, << >>)
  \/ \E n \in Names, v \in IntValues : SetIntWidgetValue(n, v)
  \/ \E n \in Names, v \in StringValues : SetStringWidgetValue(n, v)

RoundTripSpec == Init /\ [][RoundTripNext]_vars

\* a Dock, next to a MessageWidget and a TimePanel that nobody uses
DockSpecInit ==
  /\ MessageWidgetInit({"Ints"})
  /\ DockInit
  /\ TimePanelInit /\ tpConfig = NoConfig
  /\ EventInit

DockSpec == DockSpecInit /\ [][DockNext]_vars

\* a TimePanel, next to a MessageWidget and a Dock that nobody uses
TimePanelSpecInit ==
  /\ MessageWidgetInit({"Ints"})
  /\ DockInit
  /\ TimePanelInit
  /\ EventInit

TimePanelSpec == TimePanelSpecInit /\ [][TimePanelNext]_vars

\* the events, next to a MessageWidget, a Dock and a TimePanel that nobody
\* uses
EventSpecInit ==
  /\ MessageWidgetInit({"Ints"})
  /\ DockInit
  /\ TimePanelInit /\ tpConfig = NoConfig
  /\ EventInit

EventSpec == EventSpecInit /\ [][EventNext]_vars

-----------------------------------------------------------------------------
(* The fields of a message type, by scoped name *)

SupportedTypes == ScalarTypes \cup {"TYPE_MESSAGE"}

IsGeneric(field) ==
  /\ field.type = "TYPE_MESSAGE"
  /\ ~field.is_repeated
  /\ field.message_type \notin SpecialTypes

\* Every field path of the type, to the given depth: its scoped name, its
\* descriptor, the scoped names above it, and whether every message above it
\* is a non-repeated generic one
RECURSIVE Paths(_, _, _, _, _)
Paths(type, _name, above, reach, depth) ==
  UNION { LET field == Descriptor(type)[i]
              scopedName == ScopedName(_name, field.name)
          IN { [name |-> scopedName, field |-> field, above |-> above,
                reach |-> reach] }
             \cup
             (IF field.type = "TYPE_MESSAGE" /\ depth > 0
              THEN Paths(field.message_type, scopedName,
                         above \cup {scopedName},
                         reach /\ IsGeneric(field), depth - 1)
              ELSE { })
        : i \in 1..Len(Descriptor(type)) }

RootPaths == Paths(root, "", { }, TRUE, MaxStack)

\* the descriptor of the field at a scoped name
FieldAt(scopedName) ==
  (CHOOSE fp \in RootPaths : fp.name = scopedName).field

\* some non-repeated field beneath a message of this type is a scalar of a
\* supported type or a special message
RECURSIVE Populated(_, _)
Populated(type, depth) ==
  \E i \in 1..Len(Descriptor(type)) :
     LET field == Descriptor(type)[i] IN
     /\ ~field.is_repeated
     /\ \/ field.type \in ScalarTypes
        \/ field.type = "TYPE_MESSAGE" /\ field.message_type \in SpecialTypes
        \/ IsGeneric(field) /\ depth > 0
             /\ Populated(field.message_type, depth - 1)

\* Load(m) has returned
Loaded == lastOp.op = "Load" /\ lastOp.ret /\ status = "running"

-----------------------------------------------------------------------------
(* C1 *)

\* C1 as stated: after Load(m) the widget map has an entry for exactly the
\* non-repeated fields of a supported type (message included) that are
\* reachable through generic nested messages.
C1_EntryPerSupportedField ==
  Loaded =>
    DOMAIN configWidgets =
      { fp.name : fp \in { q \in RootPaths :
          q.reach /\ ~q.field.is_repeated
          /\ q.field.type \in SupportedTypes } }

\* C1, amended: after Load(m) the widget map has an entry for exactly the
\* non-repeated fields reachable through generic nested messages that are a
\* supported scalar, a special message (one entry, nothing beneath it), or a
\* generic message with at least one such field beneath it; repeated fields
\* and fields of other types have none.
C1_EntryPerPopulatedField ==
  Loaded =>
    /\ DOMAIN configWidgets =
         { fp.name : fp \in { q \in RootPaths :
             /\ q.reach
             /\ ~q.field.is_repeated
             /\ \/ q.field.type \in ScalarTypes
                \/ q.field.type = "TYPE_MESSAGE"
                     /\ q.field.message_type \in SpecialTypes
                \/ IsGeneric(q.field)
                     /\ Populated(q.field.message_type, MaxStack) } }
    /\ \A n \in DOMAIN configWidgets :
         /\ configWidgets[n].scopedName = n
         /\ configWidgets[n].group = (FieldAt(n).type = "TYPE_MESSAGE")

\* a message with a nested scalar, an empty nested message, a repeated field
\* and a bytes field was loaded
C1_Witness ==
  /\ Loaded
  /\ root = "Outer"
  /\ DOMAIN configWidgets = {"child", "child::x", "flag"}

-----------------------------------------------------------------------------
(* C2 *)

\* C2: UpdateFromMsg leaves the map from scoped name to widget as it is: the
\* same names, each with the widget object it had, and the same
\* PropertyWidgetCount.
C2_UpdateKeepsWidgets ==
  [][lastOp'.op = "UpdateFromMsg" /\ lastOp'.ret
       => /\ DOMAIN configWidgets' = DOMAIN configWidgets
          /\ \A n \in DOMAIN configWidgets :
               /\ configWidgets'[n].id = configWidgets[n].id
               /\ configWidgets'[n].kind = configWidgets[n].kind
          /\ PropertyWidgetCount' = PropertyWidgetCount]_vars

\* UpdateFromMsg has changed the value of a widget and kept the widgets
C2_Witness ==
  /\ lastOp.op = "UpdateFromMsg"
  /\ lastOp.ret
  /\ root = "Ints"
  /\ GetField(loadedMsg, "i32", FieldAt("i32")) = << 100000000, 0 >>
  /\ configWidgets["i32"].value = << 100000000 >>
  /\ PropertyWidgetCount = 2

-----------------------------------------------------------------------------
(* C3 *)

\* the integer, string and enum fields that have a widget
RoundTripFields ==
  { fp \in RootPaths :
      /\ fp.name \in DOMAIN configWidgets
      /\ fp.field.type \in IntTypes \cup {"TYPE_STRING", "TYPE_ENUM"} }

\* the widget made for the field can show the value: an int32 or int64 in
\* [-10^8, 10^8], a uint32 or uint64 in [0, 10^8], a string without a NUL
\* character, any enum value
Showable(field, value) ==
  CASE field.type \in {"TYPE_INT32", "TYPE_INT64"} ->
         /\ value = SignExtend(value[1])
         /\ -SpinBoxMax <= value[1] /\ value[1] <= SpinBoxMax
    [] field.type \in {"TYPE_UINT32", "TYPE_UINT64"} ->
         /\ value[2] = 0
         /\ 0 <= value[1] /\ value[1] <= SpinBoxMax
    [] field.type = "TYPE_STRING" ->
         \A k \in 1..Len(value) : value[k] # 0
    [] OTHER -> TRUE

\* Msg() has returned and no widget was edited since Load
MsgAfterLoad == lastOp.op = "Msg" /\ lastOp.ret /\ synced = "Load"

\* C3 as stated: after Load(m) and no edit, Msg() holds for every int32,
\* int64, uint32, uint64, string and enum field with a widget the value the
\* field has in m, whatever the value.
C3_RoundTripEveryValue ==
  MsgAfterLoad =>
    \A fp \in RoundTripFields :
       GetField(msg, fp.name, fp.field) = GetField(loadedMsg, fp.name, fp.field)

\* C3, amended: after Load(m) and no edit, Msg() holds for every int32,
\* int64, uint32, uint64, string and enum field with a widget the value the
\* field has in m, when that value is one the widget can show.
C3_RoundTripShowable ==
  MsgAfterLoad =>
    \A fp \in RoundTripFields :
       Showable(fp.field, GetField(loadedMsg, fp.name, fp.field))
         => GetField(msg, fp.name, fp.field)
              = GetField(loadedMsg, fp.name, fp.field)

\* a message with a negative int64 and a positive int32 went through the
\* widgets and back
C3_Witness ==
  /\ MsgAfterLoad
  /\ root = "Ints"
  /\ HasField(loadedMsg, "i64")
  /\ msg["i64"] = << -7, -1 >>
  /\ msg["i32"] = << 7, 0 >>

-----------------------------------------------------------------------------
(* C4 *)

\* the fields with a single value that have a widget
ScalarFields ==
  { fp \in RootPaths :
      fp.name \in DOMAIN configWidgets /\ fp.field.type \in ScalarTypes }

\* Msg() has returned and no widget was edited since UpdateFromMsg(m2)
MsgAfterUpdate == lastOp.op = "Msg" /\ lastOp.ret /\ synced = "UpdateFromMsg"

-----------------------------------------------------------------------------
(* C5 *)

\* the setter op has returned true for a writable widget of one of the kinds
SetReturnedTrue(op, kinds) ==
  /\ lastOp.op = op
  /\ lastOp.ret
  /\ status = "running"
  /\ lastOp.name \in DOMAIN configWidgets
  /\ configWidgets[lastOp.name].kind \in kinds
  /\ ~WidgetReadOnly(lastOp.name)

\* the getter gives v, and the next Msg() holds v, for the integer setters
\* with v inside the range of the widget
IntSettersHold ==
  /\ SetReturnedTrue("SetIntWidgetValue", {"int"})
       /\ -SpinBoxMax <= lastOp.arg[1] /\ lastOp.arg[1] <= SpinBoxMax
     => /\ IntWidgetValue(lastOp.name) = lastOp.arg[1]
        /\ GetField(MsgResult, lastOp.name, FieldAt(lastOp.name))
             = SignExtend(lastOp.arg[1])
  /\ SetReturnedTrue("SetUIntWidgetValue", {"uint"})
       /\ 0 <= lastOp.arg[1] /\ lastOp.arg[1] <= SpinBoxMax
     => /\ UIntWidgetValue(lastOp.name) = lastOp.arg[1]
        /\ GetField(MsgResult, lastOp.name, FieldAt(lastOp.name))
             = << lastOp.arg[1], 0 >>

\* the same for the string setter
StringSetterHolds ==
  /\ StringWidgetValue(lastOp.name) = lastOp.arg
  /\ GetField(MsgResult, lastOp.name, FieldAt(lastOp.name)) = lastOp.arg

\* the same for the enum setter
EnumSetterHolds ==
  /\ EnumWidgetValue(lastOp.name) = lastOp.item
  /\ HasField(MsgResult, lastOp.name)
  /\ EnumValueName(FieldAt(lastOp.name).enum_type,
                   MsgResult[lastOp.name][1]) = lastOp.item

\* C5 as stated: after a setter of a writable int, uint, string or enum
\* widget returns true with v inside the widget's range (any string, an enum
\* text among the combo items), the getter returns v and the next Msg() holds
\* v in the field.
C5_SetThenMsgHoldsValue ==
  /\ IntSettersHold
  /\ SetReturnedTrue("SetStringWidgetValue", {"string", "plain"})
       => StringSetterHolds
  /\ SetReturnedTrue("SetEnumWidgetValue", {"enum"}) => EnumSetterHolds

\* C5, amended: the same, for a string v without a NUL character and an enum
\* v that is among the combo items and names a value of the field's enum
\* type.
C5_SetThenMsgHoldsShowable ==
  /\ IntSettersHold
  /\ SetReturnedTrue("SetStringWidgetValue", {"string", "plain"})
       /\ (\A k \in 1..Len(lastOp.arg) : lastOp.arg[k] # 0)
     => StringSetterHolds
  /\ SetReturnedTrue("SetEnumWidgetValue", {"enum"})
       /\ FindValueByName(FieldAt(lastOp.name).enum_type, lastOp.item) >= 0
     => EnumSetterHolds

\* SetEnumWidgetValue("e", "GREEN") has returned true and the message copy
\* does not hold GREEN yet
C5_Witness ==
  /\ SetReturnedTrue("SetEnumWidgetValue", {"enum"})
  /\ root = "Text"
  /\ lastOp.name = "e"
  /\ lastOp.item = "GREEN"
  /\ GetField(msg, "e", FieldAt("e")) = << 0 >>
  /\ MsgResult["e"] = << 1 >>

-----------------------------------------------------------------------------
(* C6 *)

\* C6: Msg() leaves every field whose widget is read-only, and every field
\* beneath such a field, as it is in the message copy: set or unset, and with
\* the same value, whatever the widgets hold.
C6_ReadOnlyFieldsKept ==
  [][lastOp'.op = "Msg" /\ lastOp'.ret
       => \A fp \in RootPaths :
            (\E a \in fp.above \cup {fp.name} : WidgetReadOnly(a))
              => /\ HasField(msg', fp.name) = HasField(msg, fp.name)
                 /\ GetField(msg', fp.name, fp.field)
                      = GetField(msg, fp.name, fp.field)]_vars

\* Msg() has returned while the group of a nested message is read-only and
\* the widget of a field inside it holds a value the message copy does not
C6_Witness ==
  /\ lastOp.op = "Msg"
  /\ lastOp.ret
  /\ root = "Outer"
  /\ WidgetReadOnly("child")
  /\ WidgetReadOnly("child::x")
  /\ configWidgets["child::x"].value = << 5 >>
  /\ GetField(msg, "child::x", FieldAt("child::x")) = << 7, 0 >>

-----------------------------------------------------------------------------
(* C7 *)

\* C7: Load(m) returns, whatever the message type, also one with a
\* non-repeated field of its own type.
C7_LoadTerminates == ~(status = "crashed" /\ lastOp.op = "Load")

-----------------------------------------------------------------------------
(* C8 *)

\* the last thing the Dock did was to handle a close event with a plugin
ClosedWithPlugin ==
  /\ dockOp = "closeEvent"
  /\ closeLog # << >>
  /\ closeLog[1].plugin # NoPlugin

\* C8: a close event on a Dock with a Plugin child emits Closing exactly once,
\* while the plugin is still a child, then sets the plugin's parent to null,
\* and only then runs the base close handling; afterwards the plugin is not
\* a child of the Dock.
C8_ClosingThenDetachThenBase ==
  ClosedWithPlugin =>
    /\ Len(closeLog) = 3
    /\ closeLog[1].ev = "Closing" /\ closeLog[1].isChild
    /\ closeLog[2].ev = "setParent" /\ ~closeLog[2].isChild
    /\ closeLog[3].ev = "QDockWidget::closeEvent" /\ ~closeLog[3].isChild
    /\ closeLog[1].plugin \notin Range(dockChildren)

\* a Dock with two plugins was closed: the first was set free, the second is
\* still there
C8_Witness ==
  /\ ClosedWithPlugin
  /\ closeLog[1].plugin = "p1"
  /\ dockChildren = << "p2" >>
  /\ closingEmitted = 1

-----------------------------------------------------------------------------
(* C9 *)

\* C9: a close event emits Closing if and only if the Dock has a Plugin child
\* at that moment, and the base close handling runs in both cases; Closing is
\* never emitted more often for a plugin than the plugin was put into the
\* Dock.
C9_ClosingIffPlugin ==
  [][/\ closeEvents' = closeEvents + 1
        => /\ closingEmitted' =
                closingEmitted + (IF dockChildren # << >> THEN 1 ELSE 0)
           /\ baseCloses' = baseCloses + 1
     /\ \A p \in Plugins : closings'[p] <= attached'[p]
     /\ closingEmitted' <= closeEvents']_vars

\* a Dock was closed with its plugin and then closed again without one
C9_Witness ==
  /\ dockOp = "closeEvent"
  /\ closeLog # << >>
  /\ closeLog[1].ev = "ignerr"
  /\ closingEmitted = 1
  /\ baseCloses = 2

-----------------------------------------------------------------------------
(* C10 *)

\* C10: in a TimePanel with world control, exactly one of the play and pause
\* buttons is visible and the step button is enabled exactly when the play
\* button is visible; before any click or message the play button is visible
\* exactly when start_paused is true.
C10_PlayXorPause ==
  HasWorldControl =>
    /\ playVisible # pauseVisible
    /\ stepEnabled = playVisible
    /\ tpEvents = 0 => playVisible = tpConfig.start_paused

\* a panel that started playing was paused by a message, with clicks before
C10_Witness ==
  /\ HasWorldControl
  /\ ~tpConfig.start_paused
  /\ tpRequest.sent
  /\ tpEvents >= 2
  /\ playVisible
  /\ stepEnabled

\* the step just taken is the click _op, handled by the panel
Clicked(_op) == tpEvents' = tpEvents + 1 /\ tpOp'.op = _op

\* the buttons of a paused panel (play visible, pause hidden, step enabled)
\* or of a running one, after the step
ShowsPaused(_paused) ==
  /\ playVisible' = _paused
  /\ pauseVisible' = ~_paused
  /\ stepEnabled' = _paused

C12_StatsSetLabels ==
  /\ \A f \in DOMAIN Labels : tpLabels[Labels[f]] = NA
  /\ [][Clicked("ProcessMsg") =>
          LET m == Head(tpInbox) IN
          /\ \A f \in DOMAIN Labels :
               IF HasLabel(f) /\ f \in DOMAIN m
               THEN tpLabels'[Labels[f]] = LabelText(f, m[f])
               ELSE tpLabels'[Labels[f]] = tpLabels[Labels[f]]
          /\ HasWorldControl => ShowsPaused(m.paused)
     ]_vars

\* the sim time and then the real time were received, as in the test: the
\* first label kept "00 01:00:00.123" when the second became
\* "01 00:00:00.001", and the real time factor is still "N/A"
C12_Witness ==
  /\ tpOp.op = "ProcessMsg"
  /\ tpEvents = 2
  /\ tpLabels["simTimeLabel"] = <<0, 1, 0, 0, 123>>
  /\ tpLabels["realTimeLabel"] = <<1, 0, 0, 0, 1>>
  /\ tpLabels["realTimeFactorLabel"] = NA
  /\ HasLabel("real_time_factor")
  /\ HasWorldControl /\ playVisible /\ ~tpConfig.start_paused

\* the buttons and the stats labels a TimePanel can have
ButtonNames == {"playButton", "pauseButton", "stepButton"}
LabelNames == {Labels[f] : f \in DOMAIN Labels}

\* C13: a TimePanel loads whatever its configuration is: loadPlugin returns
\* true and the window has exactly one plugin.  With no topic, or with an
\* invalid one, the plugin has no stats label; with no service it has no
\* button; with no configuration it has only its two spacers and the title
\* "Time panel".
C13_IncompleteConfigLoads ==
  /\ tpPlugin.loaded
  /\ tpPlugin.plugins = 1
  /\ tpConfig.topic \in {"", "incorrect   topic  with spaces"} =>
       tpPlugin.children \cap LabelNames = {}
  /\ tpConfig.service = "" => tpPlugin.children \cap ButtonNames = {}
  /\ tpConfig = NoConfig =>
       /\ Cardinality(tpPlugin.children) = 2
       /\ tpPlugin.children \cap (ButtonNames \cup LabelNames) = {}
       /\ tpPlugin.title = "Time panel"

\* the configuration of the IncorrectWorldStats test: two labels asked for on
\* a topic with spaces, next to a complete <world_control>: the plugin has
\* its buttons, which were used, and no label
C13_Witness ==
  /\ tpConfig.topic = "incorrect   topic  with spaces"
  /\ tpConfig.sim_time /\ tpConfig.real_time
  /\ tpConfig.play_pause /\ tpConfig.service = "/world_control_test"
  /\ tpPlugin.loaded
  /\ tpPlugin.children =
       {"spacer1", "spacer2", "playButton", "pauseButton", "stepButton"}
  /\ tpRequests > 0

\* a type that counts down from QEvent::MaxUser: it is nearer to MaxUser
\* than to QEvent::User
CountsDown(_type) ==
  /\ _type <= QEventMaxUser
  /\ QEventMaxUser - _type < _type - QEventUser

\* C14: user defined events start from QEvent::MaxUser and count down: the
\* type of every event posted, whatever its class, is QEvent::MaxUser minus
\* a small offset and none counts up from QEvent::User.
C14_CountDownFromMaxUser ==
  \A i \in DOMAIN postedEvents : CountsDown(postedEvents[i].type)

\* C15: each event class has a unique type: events of different classes have
\* different types, every type lies in [QEvent::User, QEvent::MaxUser], and
\* a delivered event is taken for an event of its own class and of no other.
C15_UniqueTypesInUserRange ==
  /\ \A i, j \in DOMAIN postedEvents :
       postedEvents[i].class # postedEvents[j].class =>
         postedEvents[i].type # postedEvents[j].type
  /\ \A i \in DOMAIN postedEvents :
       /\ postedEvents[i].type >= QEventUser
       /\ postedEvents[i].type <= QEventMaxUser
  /\ delivered # NoEvent =>
       /\ delivered.matches = {delivered.class}
       /\ delivered.type \in QEventUser .. QEventMaxUser

\* a LeftClickToScene event was delivered while events of three other
\* classes, HoverToScene among them, wait
C15_Witness ==
  /\ delivered.class = "LeftClickToScene"
  /\ Len(postedEvents) = 3
  /\ {postedEvents[i].class : i \in DOMAIN postedEvents} =
       {"HoverToScene", "Render", "SnapIntervals"}

\* the step just taken is a call of AddPropertyWidget
AddCalled == lastOp'.op = "AddPropertyWidget" /\ calls' = calls + 1

\* C16: AddPropertyWidget(name, child) returns false, and leaves the widget
\* map and the child as they were, when name is empty, when child is null or
\* when name is registered already; otherwise it returns true, the child has
\* name as its scopedName and is the widget registered as name, every other
\* registration stays, and PropertyWidgetCount is one more than before.
\* Every registered widget carries the name it is registered with, and
\* PropertyWidgetCount is the number of registered names.
C16_AddPropertyWidget ==
  /\ [][AddCalled =>
          LET name == lastOp'.name
              child == lastOp'.child
              refused == \/ name = ""
                         \/ child = nullptr
                         \/ name \in DOMAIN configWidgets
          IN /\ lastOp'.ret = ~refused
             /\ refused =>
                  /\ configWidgets' = configWidgets
                  /\ child \in UserChildren
                  /\ PropertyWidgetCount' = PropertyWidgetCount
             /\ ~refused =>
                  /\ child.scopedName = name
                  /\ configWidgets'[name] = child
                  /\ \A n \in DOMAIN configWidgets :
                       configWidgets'[n] = configWidgets[n]
                  /\ PropertyWidgetCount' = PropertyWidgetCount + 1
     ]_vars
  /\ [](/\ \A n \in DOMAIN configWidgets : configWidgets[n].scopedName = n
        /\ PropertyWidgetCount = Cardinality(DOMAIN configWidgets))

\* after Load, a string child was registered as "extra", and a second
\* registration under that name was refused
C16_Witness ==
  /\ msg # NoMsg
  /\ "extra" \in DOMAIN configWidgets
  /\ configWidgets["extra"].kind = "string"
  /\ lastOp.op = "AddPropertyWidget"
  /\ lastOp.name = "extra"
  /\ ~lastOp.ret
  /\ lastOp.child = CreateIntWidget
  /\ PropertyWidgetCount > 1

\* the step just taken feeds the message Msg() returned back through
\* UpdateFromMsg
FedBack ==
  /\ lastOp.op = "Msg" /\ lastOp.ret
  /\ lastOp'.op = "UpdateFromMsg" /\ lastOp'.ret
  /\ loadedMsg' = msg

\* C17: feeding the message returned by Msg() back through UpdateFromMsg
\* leaves every widget as it was, whatever edits were made before Msg(): the
\* same widgets, each with the values, the text and the items it showed.  A
\* geometry widget whose type was changed so shows, after the round trip,
\* the dimensions it held for that type.
C17_MsgFedBackKeepsWidgets ==
  [][FedBack =>
       /\ DOMAIN configWidgets' = DOMAIN configWidgets
       /\ \A n \in DOMAIN configWidgets :
            /\ configWidgets'[n].value = configWidgets[n].value
            /\ configWidgets'[n].text = configWidgets[n].text
            /\ configWidgets'[n].items = configWidgets[n].items
    ]_vars

\* C18: in update mode a field that the incoming message does not set is
\* skipped: a successful UpdateFromMsg(m) leaves every widget whose field is
\* not set in m (as is every field below a message field that m does not
\* set) exactly as it was, and every widget it creates is the widget of a
\* field that m sets.
C18_UnsetFieldsSkipped ==
  [][lastOp'.op = "UpdateFromMsg" /\ lastOp'.ret =>
       /\ \A n \in DOMAIN configWidgets :
            ~HasField(loadedMsg', n) =>
              /\ n \in DOMAIN configWidgets'
              /\ configWidgets'[n] = configWidgets[n]
       /\ \A n \in DOMAIN configWidgets' \ DOMAIN configWidgets :
            HasField(loadedMsg', n)
    ]_vars

\* UpdateFromMsg was given a message that sets one integer field and leaves
\* another unset, whose widget still shows the value it had before
C18_Witness ==
  /\ lastOp.op = "UpdateFromMsg"
  /\ lastOp.ret
  /\ \E n, k \in DOMAIN configWidgets :
       /\ ~HasField(loadedMsg, n)
       /\ configWidgets[n].kind = "int"
       /\ configWidgets[n].value # << 0 >>
       /\ HasField(loadedMsg, k)
       /\ configWidgets[k].kind = "int"
       /\ configWidgets[k].value = << LowWord(loadedMsg[k]) >>

====
